---- MODULE Spec2Model ----
(***************************************************************************)
(* TarTape: recorder (inventory + offset layout), player (pre-flight,      *)
(* resume-point check) and streaming engine (byte-window arithmetic) over  *)
(* a small live filesystem.                                                *)
(*                                                                         *)
(* Strings are sequences of byte codes, so that ORDER BY arc_path is the   *)
(* byte-wise order SQLite uses.  FILE_DATA payloads are kept as runs of    *)
(* symbolic bytes <<source, track, first, length>>: a header byte is byte  *)
(* i of TarHeader.build(track), a content byte is byte i of one version of *)
(* a file, a NUL byte is anonymous.                                        *)
(***************************************************************************)
EXTENDS Integers, Sequences, FiniteSets, TLC

\* ---------------------------------------------------------------- constants
TAR_BLOCK_SIZE == 512
TAR_FOOTER_SIZE == 1024
CHUNK_SIZE_DEFAULT == 65536
SPOT_CHECK_SAMPLE == 15

\* ------------------------------------------------------------------- bounds
\* number of filesystem mutations another process performs after the commit
MaxEnvSteps == 1

\* ------------------------------------------------------------ small domains
Slash == 47
RootName == <<114>>                       \* "r"
NameA == <<97>>                           \* "a"
NameADash == <<97, 45>>                   \* "a-"  ('-' sorts before '/')
NameB == <<98>>                           \* "b"

\* rel paths are sequences of names; <<>> is the recorded directory itself
RootPath == <<>>
PathA == <<NameA>>
PathADash == <<NameADash>>
PathAB == <<NameA, NameB>>
Paths == {RootPath, PathA, PathADash, PathAB}

FileSizes == {0, 1, 512, 513}
ResizeSizes == {1, 600}
ChunkSizes == {0, 300}
Modes == {420, 384}                       \* 0o644, 0o600
LinkTargets == {<<116>>, <<117>>}         \* "t", "u"

\* mtime on disk is a float: whole seconds plus a sub-second part, which is
\* either exactly zero or a fraction larger than the 1e-4 tolerance; every
\* path was last modified in second 1 when recording starts
Fractions == {"zero", "frac"}
TouchTimes == {[sec |-> 5, frac |-> "zero"]}

NoNode == [kind |-> "absent"]
FileNode(size, frac, ver) ==
    [kind |-> "file", size |-> size, sec |-> 1, frac |-> frac,
     mode |-> 420, link |-> <<>>, ver |-> ver]
DirNode ==
    [kind |-> "dir", size |-> 0, sec |-> 1, frac |-> "zero",
     mode |-> 493, link |-> <<>>, ver |-> 0]
LinkNode(target) ==
    [kind |-> "symlink", size |-> Len(target), sec |-> 1,
     frac |-> "zero", mode |-> 511, link |-> target, ver |-> 0]
SocketNode ==
    [kind |-> "other", size |-> 0, sec |-> 1, frac |-> "zero",
     mode |-> 420, link |-> <<>>, ver |-> 0]

\* what each path of the recorded directory may be when recording starts
InitialNodes(p) ==
    IF p = RootPath THEN {DirNode}
    ELSE IF p = PathA
    THEN {FileNode(s, "zero", 0) : s \in FileSizes}
            \cup {FileNode(1, "frac", 0), DirNode, NoNode}
    ELSE IF p = PathADash
    THEN {LinkNode(<<116>>), SocketNode, FileNode(1, "zero", 0), NoNode}
    ELSE {FileNode(1, "zero", 0), NoNode}

Parent(p) == SubSeq(p, 1, Len(p) - 1)

\* a directory tree: the root is a directory, a path exists only inside an
\* existing directory
WellFormedTree(t) ==
    /\ \A p \in Paths : t[p] \in InitialNodes(p)
    /\ \A p \in Paths \ {RootPath} :
          t[p] # NoNode => t[Parent(p)].kind = "dir"

AllNodes == UNION {InitialNodes(p) : p \in Paths}
Trees == {t \in [Paths -> AllNodes] : WellFormedTree(t)}

\* ------------------------------------------------------------------ strings
Min(a, b) == IF a < b THEN a ELSE b
Max(a, b) == IF a > b THEN a ELSE b

\* byte-wise (memcmp) order of two strings
LexLess(a, b) ==
    \E i \in 1..(Min(Len(a), Len(b)) + 1) :
        /\ \A j \in 1..(i - 1) : a[j] = b[j]
        /\ \/ i = Len(a) + 1 /\ i <= Len(b)
           \/ i <= Len(a) /\ i <= Len(b) /\ a[i] < b[i]

\* --------------------------------------------------------------- variables
VARIABLES
    fs,         \* the live directory: rel path -> node (lstat + content)
    tapeExists, \* D/.tartape/index.db exists
    tape,       \* the committed inventory: tracks in arc_path order, total_size
    drift,      \* what another process changed since the commit
    envSteps,   \* number of mutations performed by other processes
    pc,         \* position of the play generator
    play,       \* locals of TapePlayer.play and TarStreamGenerator.stream
    events,     \* events yielded by the current play
    err,        \* exception that ended the current play
    full,       \* outcome of the last finished play(start_offset=0)
    hdr,        \* a Track handed to TarHeader and what build() returned
    rec,        \* the TapeRecorder objects and D/.tartape
    other,      \* a second play generator of the same process
    scan        \* locals of a running TapeRecorder._run_discovery

vars ==
    <<fs, tapeExists, tape, drift, envSteps, pc, play, events, err, full,
      hdr, rec, other, scan>>

\* ------------------------------------------------------------ header codec
\* TarHeader works on text and on unbounded integers.  Text is a sequence of
\* code points, encoded to UTF-8 where the code encodes it.  A number is the
\* sequence of its binary digits, most significant first and without leading
\* zeros (<<>> is 0), so that 64-bit values and base 8 / base 256 digits are
\* exact.
LIMIT_NAME_BYTES == 100
LIMIT_PREFIX_BYTES == 155

\* "c" * n
Rep(c, n) == [i \in 1..n |-> c]

\* int -> binary digits
RECURSIVE ToBits(_)
ToBits(n) == IF n = 0 THEN <<>> ELSE Append(ToBits(n \div 2), n % 2)

\* a <= b on binary digits
BitsLeq(a, b) == Len(a) < Len(b) \/ (Len(a) = Len(b) /\ ~LexLess(b, a))

\* 8589934591 = 2^33 - 1 (8 GiB - 1 byte)
LIMIT_USTAR == Rep(1, 33)

\* str.encode("utf-8") of one code point
utf8(cp) ==
    IF cp < 128 THEN <<cp>>
    ELSE IF cp < 2048 THEN <<192 + (cp \div 64), 128 + (cp % 64)>>
    ELSE IF cp < 65536
    THEN <<224 + (cp \div 4096), 128 + ((cp \div 64) % 64), 128 + (cp % 64)>>
    ELSE <<240 + (cp \div 262144), 128 + ((cp \div 4096) % 64),
           128 + ((cp \div 64) % 64), 128 + (cp % 64)>>

\* str.encode("utf-8"): the code points' encodings one after the other
RECURSIVE encode(_)
encode(s) ==
    IF Len(s) = 0 THEN <<>>
    ELSE IF Len(s) = 1 THEN utf8(s[1])
    ELSE encode(SubSeq(s, 1, Len(s) \div 2))
            \o encode(SubSeq(s, (Len(s) \div 2) + 1, Len(s)))

\* oct(value)[2:], as digit values
oct(value) ==
    IF value = <<>> THEN <<0>>
    ELSE LET p == Rep(0, (3 - (Len(value) % 3)) % 3) \o value
         IN  [k \in 1..(Len(p) \div 3) |->
                 4 * p[3 * k - 2] + 2 * p[3 * k - 1] + p[3 * k]]

\* str.zfill, then .encode("ascii") of the digits
zfill(digits, width) ==
    LET padded == Rep(0, width - Len(digits)) \o digits
    IN  [k \in 1..Len(padded) |-> 48 + padded[k]]

\* int.to_bytes(length, byteorder="big"), for a value that fits
to_bytes(value, length) ==
    LET p == Rep(0, 8 * length - Len(value)) \o value
    IN  [k \in 1..length |->
            128 * p[8 * k - 7] + 64 * p[8 * k - 6] + 32 * p[8 * k - 5]
              + 16 * p[8 * k - 4] + 8 * p[8 * k - 3] + 4 * p[8 * k - 2]
              + 2 * p[8 * k - 1] + p[8 * k]]

\* buffer[a:b] = data (offsets count from 0)
Assign(buffer, a, b, data) ==
    SubSeq(buffer, 1, a) \o data \o SubSeq(buffer, b + 1, Len(buffer))

NoError == [kind |-> "none", msg |-> "none", at |-> 0]
Raise(h, kind, msg, at) ==
    [h EXCEPT !.error = [kind |-> kind, msg |-> msg, at |-> at]]

\* mutant: the first '/' that fits is taken
split_path_leftmost(path) ==
    IF Len(encode(path)) <= LIMIT_NAME_BYTES
    THEN [ok |-> TRUE, name |-> path, prefix |-> <<>>]
    ELSE LET fits == {i \in 1..Len(path) :
                        /\ path[i] = Slash
                        /\ Len(encode(SubSeq(path, 1, i - 1))) <= LIMIT_PREFIX_BYTES
                        /\ Len(encode(SubSeq(path, i + 1, Len(path))))
                              <= LIMIT_NAME_BYTES}
         IN  IF fits = {} THEN [ok |-> FALSE, name |-> <<>>, prefix |-> <<>>]
             ELSE LET best_split_index == CHOOSE i \in fits : \A j \in fits : i <= j
                  IN  [ok     |-> TRUE,
                       name   |-> SubSeq(path, best_split_index + 1, Len(path)),
                       prefix |-> SubSeq(path, 1, best_split_index - 1)]

\* TarHeader._split_path: the loop keeps the last index that fits
_split_path(path) ==
    IF Len(encode(path)) <= LIMIT_NAME_BYTES
    THEN [ok |-> TRUE, name |-> path, prefix |-> <<>>]
    ELSE LET fits == {i \in 1..Len(path) :
                        /\ path[i] = Slash
                        /\ Len(encode(SubSeq(path, 1, i - 1))) <= LIMIT_PREFIX_BYTES
                        /\ Len(encode(SubSeq(path, i + 1, Len(path))))
                              <= LIMIT_NAME_BYTES}
         IN  IF fits = {} THEN [ok |-> FALSE, name |-> <<>>, prefix |-> <<>>]
             ELSE LET best_split_index == CHOOSE i \in fits : \A j \in fits : j <= i
                  IN  [ok     |-> TRUE,
                       name   |-> SubSeq(path, best_split_index + 1, Len(path)),
                       prefix |-> SubSeq(path, 1, best_split_index - 1)]

\* mutant: a value that does not fit is cut to the field width
set_string_truncating(h, offset, field_width, value) ==
    LET data == SubSeq(encode(value), 1, Min(field_width, Len(encode(value))))
    IN  IF h.error # NoError THEN h
        ELSE [h EXCEPT !.buffer = Assign(@, offset, offset + Len(data), data)]

\* TarHeader.set_string
set_string(h, offset, field_width, value) ==
    LET data == encode(value)
    IN  IF h.error # NoError THEN h
        ELSE IF Len(data) > field_width
        THEN Raise(h, "ValueError", "too long for field", offset)
        ELSE [h EXCEPT !.buffer = Assign(@, offset, offset + Len(data), data)]

\* TarHeader.set_octal
set_octal(h, offset, field_width, value) ==
    LET octal_string == oct(value)
        max_digits   == field_width - 1
        final_string == zfill(octal_string, max_digits) \o <<0>>
    IN  IF h.error # NoError THEN h
        ELSE IF Len(octal_string) > max_digits
        THEN Raise(h, "ValueError", "too large for octal field", offset)
        ELSE [h EXCEPT !.buffer = Assign(@, offset, offset + field_width,
                                         final_string)]

\* mutant: the size is always written in octal
set_size_octal(h, size) == set_octal(h, 124, 12, size)

\* TarHeader.set_size
set_size(h, size) ==
    LET binary_length == 12 - 1
    IN  IF h.error # NoError THEN h
        ELSE IF BitsLeq(size, LIMIT_USTAR) THEN set_octal(h, 124, 12, size)
        ELSE IF Len(size) > 8 * binary_length
        THEN Raise(h, "OverflowError", "int too big to convert", 124)
        ELSE [h EXCEPT !.buffer =
                 Assign(Assign(@, 124, 125, <<128>>), 125, 125 + binary_length,
                        to_bytes(size, binary_length))]

\* TarHeader.set_bytes
set_bytes(h, offset, value) ==
    IF h.error # NoError THEN h
    ELSE IF offset + Len(value) > 512
    THEN Raise(h, "ValueError", "write overflow", offset)
    ELSE [h EXCEPT !.buffer = Assign(@, offset, offset + Len(value), value)]

\* sum(buffer[lo - 1:hi])
RECURSIVE SumBytes(_, _, _)
SumBytes(buffer, lo, hi) ==
    IF lo > hi THEN 0
    ELSE IF lo = hi THEN buffer[lo]
    ELSE SumBytes(buffer, lo, (lo + hi) \div 2)
            + SumBytes(buffer, ((lo + hi) \div 2) + 1, hi)

\* TarHeader.calculate_checksum
calculate_checksum(h) ==
    LET spaced       == Assign(h.buffer, 148, 156, Rep(32, 8))
        octal_sum    == oct(ToBits(SumBytes(spaced, 1, Len(spaced))))
        octal_filled == zfill(octal_sum, 6)
        final_string == octal_filled \o <<0, 32>>
    IN  IF h.error # NoError THEN h
        ELSE [h EXCEPT !.buffer = Assign(spaced, 148, 156, final_string)]

\* TarHeader.__init__ + build: the header, or the exception raised.  The
\* path with the directory's trailing '/' is computed but the bare arc_path
\* is what is split and written.
build(entry) ==
    LET full_arcpath ==
            IF entry.is_dir /\ (entry.arc_path = <<>>
                                  \/ entry.arc_path[Len(entry.arc_path)] # Slash)
            THEN entry.arc_path \o <<Slash>> ELSE entry.arc_path
        split == _split_path(entry.arc_path)
        h0 == [buffer |-> Rep(0, 512), error |-> NoError]
        h1 == IF ~split.ok
              THEN Raise(h0, "ValueError", "cannot be split", 0)
              ELSE set_string(set_string(h0, 0, 100, split.name),
                              345, 155, split.prefix)
        h2 == set_octal(set_octal(set_octal(h1, 100, 8, entry.mode),
                                  108, 8, entry.uid), 116, 8, entry.gid)
        h3 == set_octal(set_size(h2, entry.size), 136, 12, entry.mtime)
        h4 == set_string(set_string(h3, 265, 32, entry.uname),
                         297, 32, entry.gname)
        h5 == IF ~entry.is_dir /\ entry.is_symlink
              THEN set_string(h4, 157, 100, entry.linkname) ELSE h4
        type_flag == IF entry.is_dir THEN 53
                     ELSE IF entry.is_symlink THEN 50 ELSE 48
        h6 == set_bytes(h5, 156, <<type_flag>>)
        h7 == set_string(set_string(h6, 257, 6, <<117, 115, 116, 97, 114, 0>>),
                         263, 2, <<48, 48>>)
        h8 == calculate_checksum(h7)
    IN  IF h8.error = NoError /\ Len(h8.buffer) # 512
        THEN Raise(h8, "ValueError", "not 512 bytes long", 0)
        ELSE h8

\* ------------------------------------------------- Tracks given to the codec
Join(a, b) == a \o <<Slash>> \o b

\* one code point per byte ('a'..'f', 'x'), two bytes (ñ) and four (U+1F525)
HeaderPaths ==
    {Rep(97, 5), Rep(97, 100), Rep(97, 101),
     Join(Rep(102, 6), Rep(97, 101)),
     Join(Rep(97, 101), Rep(102, 4)),
     Join(Join(Rep(97, 100), Rep(98, 54)), Rep(99, 99)),
     Join(Join(Rep(97, 90), Rep(98, 90)), Rep(99, 70)),
     Join(Join(Join(Rep(97, 80), Rep(98, 80)), Rep(99, 80)), Rep(100, 20)),
     Join(Join(Rep(97, 60), Rep(98, 60)), Rep(99, 30)),
     Join(Join(Rep(97, 100), Rep(98, 60)), Rep(99, 10)),
     Rep(128293, 25), Rep(128293, 26),
     Join(Rep(241, 80), Rep(120, 10)),
     Join(Rep(241, 60), Rep(241, 50))}

HeaderTexts ==
    {<<116>>, Rep(98, 32), Rep(98, 33), Rep(241, 16), Rep(241, 17),
     Rep(98, 100), Rep(98, 101), Rep(241, 51)}

\* 0, 1, 0o7777, 2^21 - 1, 2^21, 2^32 - 1, 2^33 - 1, 2^33, 10 GiB, 2^64 - 1
HeaderNumbers ==
    {<<>>, <<1>>, Rep(1, 12), Rep(1, 21), <<1>> \o Rep(0, 21), Rep(1, 32),
     Rep(1, 33), <<1>> \o Rep(0, 33), <<1, 0, 1, 0>> \o Rep(0, 30), Rep(1, 64)}

BaseEntry ==
    [arc_path |-> Rep(97, 5), size |-> ToBits(100), mtime |-> ToBits(123),
     mode |-> ToBits(420), uid |-> <<>>, gid |-> <<>>,
     uname |-> <<114, 111, 111, 116>>, gname |-> <<114, 111, 111, 116>>,
     is_dir |-> FALSE, is_symlink |-> FALSE, linkname |-> <<>>]

HeaderEntries ==
    {[BaseEntry EXCEPT !.arc_path = p, !.is_dir = (k = "dir"),
                       !.is_symlink = (k = "symlink"),
                       !.linkname = IF k = "symlink" THEN <<116>> ELSE <<>>] :
        p \in HeaderPaths, k \in {"file", "dir", "symlink"}}
    \cup {[BaseEntry EXCEPT !.is_symlink = TRUE, !.linkname = l] :
            l \in HeaderTexts}
    \cup {[BaseEntry EXCEPT !.uname = u, !.gname = g] :
            u \in HeaderTexts, g \in HeaderTexts}
    \cup {[BaseEntry EXCEPT !.size = s, !.mtime = m] :
            s \in HeaderNumbers, m \in HeaderNumbers}
    \cup {[BaseEntry EXCEPT !.uid = u, !.gid = g, !.mode = m] :
            u \in HeaderNumbers, g \in HeaderNumbers,
            m \in {ToBits(420), Rep(1, 12)}}

NoHeader == [pc |-> "none"]

\* ------------------------------------------------------- factory / recorder
Supported(node) == node.kind \in {"dir", "file", "symlink"}

\* st_uid / st_gid and their pwd / grp names: the files belong to a user
\* "u" of group "g", the directories to root, the symlinks to ids without a
\* passwd or group entry (KeyError: the name is str(id), "1234")
Owner ==
    [uid |-> 1000, gid |-> 1000, uname |-> <<117>>, gname |-> <<103>>]
RootOwner ==
    [uid |-> 0, gid |-> 0, uname |-> <<114, 111, 111, 116>>,
     gname |-> <<114, 111, 111, 116>>]
NamelessOwner ==
    [uid |-> 1234, gid |-> 1234, uname |-> <<49, 50, 51, 52>>,
     gname |-> <<49, 50, 51, 52>>]
st_owner(kind) ==
    IF kind = "dir" THEN RootOwner
    ELSE IF kind = "symlink" THEN NamelessOwner
    ELSE Owner

\* mutant: the probed identity is stored whatever anonymize says
create_track_probed(node, rel_path, arcname, anonymize) ==
    [arc_path   |-> arcname,
     rel_path   |-> rel_path,
     size       |-> IF node.kind = "file" THEN node.size ELSE 0,
     mtime      |-> node.sec,
     mode       |-> node.mode,
     uid        |-> st_owner(node.kind).uid,
     gid        |-> st_owner(node.kind).gid,
     uname      |-> st_owner(node.kind).uname,
     gname      |-> st_owner(node.kind).gname,
     is_dir     |-> node.kind = "dir",
     is_symlink |-> node.kind = "symlink",
     linkname   |-> IF node.kind = "symlink" THEN node.link ELSE <<>>,
     start_offset |-> -1,
     end_offset   |-> -1]

\* TarEntryFactory.inspect + create_track: lstat without following links
create_track(node, rel_path, arcname, anonymize) ==
    [arc_path   |-> arcname,
     rel_path   |-> rel_path,
     size       |-> IF node.kind = "file" THEN node.size ELSE 0,
     mtime      |-> node.sec,
     mode       |-> node.mode,
     uid        |-> IF anonymize THEN 0 ELSE st_owner(node.kind).uid,
     gid        |-> IF anonymize THEN 0 ELSE st_owner(node.kind).gid,
     uname      |-> IF anonymize THEN <<114, 111, 111, 116>>
                    ELSE st_owner(node.kind).uname,
     gname      |-> IF anonymize THEN <<114, 111, 111, 116>>
                    ELSE st_owner(node.kind).gname,
     is_dir     |-> node.kind = "dir",
     is_symlink |-> node.kind = "symlink",
     linkname   |-> IF node.kind = "symlink" THEN node.link ELSE <<>>,
     start_offset |-> -1,
     end_offset   |-> -1]

\* Track.has_content
has_content(track) == ~(track.is_dir \/ track.is_symlink)

\* mutant: a size that is a multiple of 512 gets a whole block of padding
padding_size_nomod(track) ==
    IF ~has_content(track) \/ track.size = 0
    THEN 0
    ELSE TAR_BLOCK_SIZE - (track.size % TAR_BLOCK_SIZE)

\* Track.padding_size
padding_size(track) ==
    IF ~has_content(track) \/ track.size = 0
    THEN 0
    ELSE (TAR_BLOCK_SIZE - (track.size % TAR_BLOCK_SIZE)) % TAR_BLOCK_SIZE

\* Track.total_block_size
total_block_size(track) ==
    TAR_BLOCK_SIZE
        + (IF ~(track.is_dir \/ track.is_symlink) THEN track.size ELSE 0)
        + padding_size(track)

\* arc name of a rel path: basename(directory) "/" name "/" name ...
RECURSIVE ArcName(_)
ArcName(p) ==
    IF p = RootPath THEN RootName
    ELSE ArcName(Parent(p)) \o <<Slash>> \o p[Len(p)]

\* ".tartape" and "index.db"
TAPE_METADATA_DIR == <<46, 116, 97, 114, 116, 97, 112, 101>>
TAPE_DB_NAME == <<105, 110, 100, 101, 120, 46, 100, 98>>
MetaPath == <<TAPE_METADATA_DIR>>
MetaDbPath == <<TAPE_METADATA_DIR, TAPE_DB_NAME>>

\* the directories above the recorded one in its resolved absolute path:
\* /h/r, or /.tartape/r
Home == <<<<104>>>>
Aboves == {Home, <<TAPE_METADATA_DIR>>}

\* what listdir and lstat see below the recorded directory: the tree, and
\* D/.tartape with index.db in it once they were made
MetaStates == {"none", "dir", "tape"}
Disk(tree, meta) ==
    [p \in Paths \cup {MetaPath, MetaDbPath} |->
        IF p \in Paths THEN tree[p]
        ELSE IF p = MetaPath
        THEN (IF meta = "none" THEN NoNode ELSE DirNode)
        ELSE (IF meta = "tape" THEN FileNode(1, "zero", 0) ELSE NoNode)]

\* fnmatch of one path component against a pattern of literals and '*'
RECURSIVE fnmatch(_, _)
fnmatch(name, pat) ==
    IF pat = <<>> THEN name = <<>>
    ELSE IF Head(pat) = 42
    THEN fnmatch(name, Tail(pat))
            \/ (name # <<>> /\ fnmatch(Tail(name), pat))
    ELSE name # <<>> /\ Head(name) = Head(pat)
            /\ fnmatch(Tail(name), Tail(pat))

\* the components of a relative pattern
RECURSIVE PatternParts(_)
PatternParts(pattern) ==
    LET cut == {i \in 1..Len(pattern) : pattern[i] = Slash}
    IN  IF cut = {} THEN <<pattern>>
        ELSE LET i == CHOOSE k \in cut : \A j \in cut : k <= j
             IN  <<SubSeq(pattern, 1, i - 1)>>
                    \o PatternParts(SubSeq(pattern, i + 1, Len(pattern)))

\* PurePath.match with a relative pattern: the last components of the path
\* against the components of the pattern
match(parts, pattern) ==
    LET pat == PatternParts(pattern)
    IN  /\ Len(pat) <= Len(parts)
        /\ \A k \in 1..Len(pat) :
              fnmatch(parts[Len(parts) - Len(pat) + k], pat[k])

\* the exclude argument: None, a glob string, a list of them, or a predicate
\* (given by the rel paths it answers True for)
NoExclude == [kind |-> "none"]
StrExclude(pattern) == [kind |-> "str", pattern |-> pattern]
ListExclude(patterns) == [kind |-> "list", patterns |-> patterns]
CallableExclude(paths) == [kind |-> "callable", paths |-> paths]
Excludes ==
    {NoExclude,
     StrExclude(NameB),                          \* "b"
     StrExclude(<<97, 42>>),                     \* "a*"
     StrExclude(<<97, 47, 42>>),                 \* "a/*"
     ListExclude({NameADash, <<42, 98>>}),       \* ["a-", "*b"]
     CallableExclude({PathA})}

\* TapeRecorder._should_exclude of the absolute path above/root/rel
_should_exclude(exclude, above, rel) ==
    LET parts == above \o <<RootName>> \o rel
        name  == parts[Len(parts)]
    IN  IF \E k \in 1..Len(parts) : parts[k] = TAPE_METADATA_DIR THEN TRUE
        ELSE IF exclude.kind = "none" THEN FALSE
        ELSE IF exclude.kind = "callable" THEN rel \in exclude.paths
        ELSE IF exclude.kind = "str"
        THEN match(parts, exclude.pattern) \/ name = exclude.pattern
        ELSE \E q \in exclude.patterns : match(parts, q) \/ name = q

\* TapeRecorder._run_discovery: the root first, then every entry that is not
\* excluded of every directory reached through real, not excluded
\* directories (symlinks are not followed); unsupported types and vanished
\* paths produce no Track.  The buffer is flushed with INSERT OR REPLACE
\* keyed by arc_path, so the store holds one Track per discovered path.
Reached(disk, p) ==
    \A k \in 0..(Len(p) - 1) : disk[SubSeq(p, 1, k)].kind = "dir"

Listed(exclude, above, p) ==
    \A k \in 1..Len(p) : ~_should_exclude(exclude, above, SubSeq(p, 1, k))

_run_discovery(tree, anonymize, exclude, above, meta) ==
    LET disk == Disk(tree, meta)
    IN  {create_track(disk[p], p, ArcName(p), anonymize) :
            p \in {q \in DOMAIN disk : /\ Reached(disk, q)
                                        /\ Listed(exclude, above, q)
                                        /\ Supported(disk[q])}}

\* mutant: the Tracks are laid out in descending arc_path order
RECURSIVE order_by_arc_path_desc(_)
order_by_arc_path_desc(S) ==
    IF S = {} THEN <<>>
    ELSE LET first == CHOOSE t \in S :
                        \A u \in S \ {t} : LexLess(u.arc_path, t.arc_path)
         IN  <<first>> \o order_by_arc_path_desc(S \ {first})

\* Track.select().order_by(Track.arc_path)
RECURSIVE order_by_arc_path(_)
order_by_arc_path(S) ==
    IF S = {} THEN <<>>
    ELSE LET first == CHOOSE t \in S :
                        \A u \in S \ {t} : LexLess(t.arc_path, u.arc_path)
         IN  <<first>> \o order_by_arc_path(S \ {first})

\* mutant: end_offset is stored before the running offset is advanced
RECURSIVE Layout_stale(_, _)
Layout_stale(tracks, current_offset) ==
    IF tracks = <<>> THEN <<>>
    ELSE LET t   == Head(tracks)
             end == current_offset + total_block_size(t)
         IN  <<[t EXCEPT !.start_offset = current_offset,
                         !.end_offset = current_offset]>>
                 \o Layout_stale(Tail(tracks), end)

\* layout pass of TapeRecorder.commit
RECURSIVE Layout(_, _)
Layout(tracks, current_offset) ==
    IF tracks = <<>> THEN <<>>
    ELSE LET t   == Head(tracks)
             end == current_offset + total_block_size(t)
         IN  <<[t EXCEPT !.start_offset = current_offset,
                         !.end_offset = end]>>
                 \o Layout(Tail(tracks), end)

\* str(int)
RECURSIVE Decimal(_)
Decimal(n) ==
    IF n < 10 THEN <<48 + n>> ELSE Decimal(n \div 10) \o <<48 + (n % 10)>>

\* mutant: the permission bits are hashed too
RECURSIVE calculate_fingerprint_mode(_)
calculate_fingerprint_mode(tracks) ==
    IF tracks = <<>> THEN <<>>
    ELSE encode(Head(tracks).arc_path \o <<124>> \o Decimal(Head(tracks).size)
                  \o <<124>> \o Decimal(Head(tracks).mtime)
                  \o <<124>> \o Decimal(Head(tracks).mode))
            \o calculate_fingerprint_mode(Tail(tracks))

\* TapeRecorder._calculate_fingerprint: the bytes fed to SHA-256, Track after
\* Track in arc_path order.  The digest is represented by the message it is
\* the digest of.
RECURSIVE _calculate_fingerprint(_)
_calculate_fingerprint(tracks) ==
    IF tracks = <<>> THEN <<>>
    ELSE encode(Head(tracks).arc_path \o <<124>> \o Decimal(Head(tracks).size)
                  \o <<124>> \o Decimal(Head(tracks).mtime))
            \o _calculate_fingerprint(Tail(tracks))

NoTape == [tracks |-> <<>>, total_size |-> 0, fingerprint |-> <<>>]

\* the store TapeRecorder.commit writes: Tracks with their offsets, and the
\* fingerprint and total_size metadata
CommittedTape(tree, anonymize, exclude, above, meta) ==
    LET laid == Layout(order_by_arc_path(
                           _run_discovery(tree, anonymize, exclude, above, meta)),
                       0)
        last == IF laid = <<>> THEN 0 ELSE laid[Len(laid)].end_offset
    IN  [tracks |-> laid, total_size |-> last + TAR_FOOTER_SIZE,
         fingerprint |-> _calculate_fingerprint(laid)]

\* the TapeRecorder objects (one per process) made for the directory
Recorders == {1, 2}
NoRecorder == [state |-> "new"]
NoRecorders ==
    [obj |-> [r \in Recorders |-> NoRecorder], metaDir |-> FALSE,
     above |-> Home]

\* what is at D/.tartape
Meta == IF ~rec.metaDir THEN "none" ELSE IF tapeExists THEN "tape" ELSE "dir"

NoErr == [kind |-> "none", cause |-> "none", at |-> "none", track |-> 0]
NoPlay == [start_offset |-> 0]
NoFull == [known |-> FALSE]
NoOther == [pc |-> "idle"]
NoScan == [pc |-> "none"]

Init ==
    /\ fs \in Trees
    /\ tapeExists = FALSE
    /\ tape = NoTape
    /\ drift = "none"
    /\ envSteps = 0
    /\ pc = "idle"
    /\ play = NoPlay
    /\ events = <<>>
    /\ err = NoErr
    /\ full = NoFull
    /\ hdr = NoHeader
    /\ rec = NoRecorders
    /\ other = NoOther
    /\ scan = NoScan

\* TapeRecorder(directory).commit() of one recorder with the default
\* arguments: refuses when a tape exists; discovery, layout, metadata, then
\* _finalize_storage creates D/.tartape (which touches the root directory's
\* mtime) and moves the store into place.
Commit ==
    /\ ~tapeExists
    /\ pc = "idle"
    /\ tape' = CommittedTape(fs, TRUE, NoExclude, rec.above, Meta)
    /\ tapeExists' = TRUE
    /\ \E t \in {[sec |-> fs[RootPath].sec, frac |-> fs[RootPath].frac]}
                    \cup TouchTimes :
          /\ fs' = [fs EXCEPT ![RootPath].sec = t.sec, ![RootPath].frac = t.frac]
          /\ drift' = IF fs'[RootPath] = fs[RootPath] THEN "none" ELSE "root"
    /\ UNCHANGED <<envSteps, pc, play, events, err, full, hdr, rec, other, scan>>

\* ------------------------------------------------------------------ player
Err(kind, cause, at, track) ==
    [kind |-> kind, cause |-> cause, at |-> at, track |-> track]

Tracks == tape.tracks
TrackIds == 1..Len(Tracks)

\* the on-disk mtime compared as the player does: int(st.st_mtime)
IntMtime(node) == node.sec

\* mutant: the root directory is checked like any other directory
assert_track_integrity_noroot(i, disk, at) ==
    LET track == tape.tracks[i]
        node  == disk[track.rel_path]
    IN  IF node = NoNode
        THEN Err("RuntimeError", "missing", at, i)
        ELSE IF track.is_dir
        THEN IF node.sec # track.mtime
             THEN Err("RuntimeError", "dir_mtime", at, i)
             ELSE NoErr
        ELSE IF track.is_symlink
        THEN IF node.kind # "symlink" THEN Err("OSError", "readlink", at, i)
             ELSE IF node.link # track.linkname
                  THEN Err("RuntimeError", "link", at, i)
                  ELSE NoErr
        ELSE IF node.sec # track.mtime
             THEN Err("RuntimeError", "mtime", at, i)
        ELSE IF node.size # track.size
             THEN Err("RuntimeError", "size", at, i)
        ELSE IF node.mode # track.mode
             THEN Err("RuntimeError", "mode", at, i)
        ELSE NoErr

\* TapePlayer._get_track_status + _assert_track_integrity: the error the
\* check of one Track raises against the disk, or NoErr.  The permission
\* bits come from S_IMODE(st.st_mode).
_assert_track_integrity(i, disk, at) ==
    LET track == Tracks[i]
        node  == disk[track.rel_path]
    IN  IF node = NoNode
        THEN Err("RuntimeError", "missing", at, i)
        ELSE IF track.is_dir
        THEN IF track.rel_path = RootPath THEN NoErr
             ELSE IF IntMtime(node) # track.mtime
                  THEN Err("RuntimeError", "dir_mtime", at, i)
                  ELSE NoErr
        ELSE IF track.is_symlink
        THEN IF node.kind # "symlink" THEN Err("OSError", "readlink", at, i)
             ELSE IF node.link # track.linkname
                  THEN Err("RuntimeError", "link", at, i)
                  ELSE NoErr
        ELSE IF IntMtime(node) # track.mtime
             THEN Err("RuntimeError", "mtime", at, i)
        ELSE IF node.size # track.size
             THEN Err("RuntimeError", "size", at, i)
        ELSE IF node.mode # track.mode
             THEN Err("RuntimeError", "mode", at, i)
        ELSE NoErr

Failing(S, disk, at) ==
    {i \in S : _assert_track_integrity(i, disk, at) # NoErr}

\* mutant: the verification stops after the first Track
_verify_first(disk) ==
    LET F == Failing(TrackIds \cap {1}, disk, "preflight")
    IN  IF F = {} THEN {NoErr}
        ELSE {_assert_track_integrity(1, disk, "preflight")}

\* TapePlayer._verify: every Track in arc_path order, first failure raised
_verify(disk) ==
    LET F == Failing(TrackIds, disk, "preflight")
    IN  IF F = {} THEN {NoErr}
        ELSE {_assert_track_integrity(CHOOSE i \in F : \A j \in F : i <= j,
                                      disk, "preflight")}

\* TapePlayer._spot_check: min(sample_size, total) Tracks in random order;
\* the failure raised is that of whichever failing sample comes first
_spot_check(sample_size, disk) ==
    IF Len(Tracks) = 0 THEN {NoErr}
    ELSE UNION {
           IF Failing(S, disk, "preflight") = {} THEN {NoErr}
           ELSE {_assert_track_integrity(i, disk, "preflight") :
                    i \in Failing(S, disk, "preflight")} :
           S \in {T \in SUBSET TrackIds :
                    Cardinality(T) = Min(sample_size, Len(Tracks))}}

\* mutant: the covering Track is looked up with start_offset < offset
_verify_resume_point_strict(offset, disk) ==
    IF offset < 0 THEN Err("ValueError", "offset", "resume", 0)
    ELSE IF offset >= tape.total_size
    THEN Err("ValueError", "offset", "resume", 0)
    ELSE IF offset >= tape.total_size - 1024 THEN NoErr
    ELSE LET C == {i \in TrackIds : Tracks[i].start_offset < offset
                                     /\ Tracks[i].end_offset > offset}
         IN  IF C = {} THEN Err("RuntimeError", "no_track", "resume", 0)
             ELSE _assert_track_integrity(CHOOSE i \in C : TRUE, disk, "resume")

\* TapePlayer._verify_resume_point
_verify_resume_point(offset, disk) ==
    IF offset < 0 THEN Err("ValueError", "offset", "resume", 0)
    ELSE IF offset >= tape.total_size
    THEN Err("ValueError", "offset", "resume", 0)
    ELSE IF offset >= tape.total_size - 1024 THEN NoErr
    ELSE LET C == {i \in TrackIds : Tracks[i].start_offset <= offset
                                     /\ Tracks[i].end_offset > offset}
         IN  IF C = {} THEN Err("RuntimeError", "no_track", "resume", 0)
             ELSE _assert_track_integrity(CHOOSE i \in C : TRUE, disk, "resume")

\* Track.select().where(Track.end_offset > start_offset).order_by(arc_path)
RECURSIVE SelectFrom(_, _)
SelectFrom(i, start_offset) ==
    IF i > Len(Tracks) THEN <<>>
    ELSE (IF Tracks[i].end_offset > start_offset THEN <<i>> ELSE <<>>)
            \o SelectFrom(i + 1, start_offset)

\* offsets a caller resumes from: around every region boundary of the tape
Boundaries ==
    {0, tape.total_size, tape.total_size - TAR_FOOTER_SIZE}
        \cup {Tracks[i].start_offset + TAR_BLOCK_SIZE : i \in TrackIds}
        \cup {Tracks[i].start_offset + TAR_BLOCK_SIZE + Tracks[i].size :
                 i \in {j \in TrackIds : has_content(Tracks[j])}}
        \cup {Tracks[i].end_offset : i \in TrackIds}
OffsetChoices ==
    {b + d : b \in Boundaries, d \in {0, 100}} \cup {-1, tape.total_size - 1}

NoHandle == [open |-> FALSE, pos |-> 0, orphan |-> NoNode]

\* TapePlayer.play up to the first event: pre-flight, resume-point check,
\* query
PlayStart ==
    /\ pc = "idle"
    /\ tapeExists
    /\ \E o \in OffsetChoices, c \in ChunkSizes, fv \in BOOLEAN :
       \E pre \in (IF fv THEN _spot_check(SPOT_CHECK_SAMPLE, fs)
                         ELSE _verify(fs)) :
          LET res  == IF pre # NoErr THEN pre
                      ELSE IF o > 0 THEN _verify_resume_point(o, fs)
                      ELSE NoErr
          IN  /\ play' = [start_offset |-> o,
                          chunk_size |-> IF c = 0 THEN CHUNK_SIZE_DEFAULT ELSE c,
                          fast_verify |-> fv,
                          query |-> SelectFrom(1, o),
                          cursor |-> "none",
                          entry |-> 0,
                          last_offset |-> 0,
                          local_skip |-> 0,
                          bytes_remaining |-> 0,
                          md5 |-> FALSE,
                          fh |-> NoHandle]
              /\ err' = res
              /\ pc' = IF res = NoErr THEN "loop" ELSE "failed"
    /\ events' = <<>>
    /\ UNCHANGED <<fs, tapeExists, tape, drift, envSteps, full, hdr, rec, other, scan>>

\* ------------------------------------------------------------------- engine
Yield(e) == events' = Append(events, e)

NulRun(n) == [src |-> "nul", id |-> <<>>, ver |-> 0, lo |-> 0, len |-> n]
HeaderRun(i, lo, n) ==
    [src |-> "header", id |-> Tracks[i].rel_path, ver |-> 0, lo |-> lo, len |-> n]
ContentRun(path, ver, lo, n) ==
    [src |-> "content", id |-> path, ver |-> ver, lo |-> lo, len |-> n]

Data(i, run) == [type |-> "FILE_DATA", track |-> i, data |-> run]

\* mutant: the error is noted and the stream goes on to the Track's end
Fail_swallowed(e) ==
    /\ err' = e
    /\ pc' = IF pc = "loop" THEN "footer" ELSE "file_end"

\* raise: the generator is finished
Fail(e) ==
    /\ err' = e
    /\ pc' = "failed"

\* top of the for loop of TarStreamGenerator.stream, up to FILE_START.  The
\* Tracks come one by one from the cursor of the query (the first fetch
\* executes it, on the connection of db_proxy, reopened if need be); a fetch
\* from a cursor whose connection was closed raises.
NextEntry ==
    /\ pc = "loop"
    /\ IF play.cursor = "dead"
       THEN /\ Fail(Err("ProgrammingError", "closed_database", "stream", 0))
            /\ UNCHANGED <<play, events>>
       ELSE IF play.query = <<>>
       THEN /\ pc' = "footer"
            /\ UNCHANGED <<play, events, err>>
       ELSE LET i     == Head(play.query)
                entry == Tracks[i]
            IN  IF play.start_offset >= entry.end_offset
                THEN /\ play' = [play EXCEPT !.query = Tail(@),
                                             !.cursor = "live",
                                             !.last_offset = entry.end_offset]
                     /\ UNCHANGED <<pc, events, err>>
                ELSE /\ play' = [play EXCEPT !.query = Tail(@),
                                             !.cursor = "live",
                                             !.entry = i]
                     /\ pc' = "header"
                     /\ UNCHANGED err
                     /\ IF play.start_offset <= entry.start_offset
                        THEN Yield([type |-> "FILE_START", track |-> i,
                                    start_offset |-> entry.start_offset])
                        ELSE UNCHANGED events
    /\ UNCHANGED <<fs, tapeExists, tape, drift, envSteps, full, hdr, rec,
                   other, scan>>

\* TarStreamGenerator._emit_header
EmitHeader ==
    /\ pc = "header"
    /\ LET entry        == Tracks[play.entry]
           header_start == entry.start_offset
           header_end   == header_start + TAR_BLOCK_SIZE
           local_skip   == Max(0, play.start_offset - header_start)
       IN  IF play.start_offset >= header_end \/ TAR_BLOCK_SIZE - local_skip = 0
           THEN UNCHANGED events
           ELSE Yield(Data(play.entry,
                           HeaderRun(play.entry, local_skip,
                                     TAR_BLOCK_SIZE - local_skip)))
    /\ pc' = IF has_content(Tracks[play.entry]) THEN "content" ELSE "file_end"
    /\ UNCHANGED <<fs, tapeExists, tape, drift, envSteps, play, err, full, hdr, rec, other, scan>>

\* abs(st.st_mtime - entry.mtime) > 1e-4 on the float mtime of the disk
MtimeDrifted(node, mtime) == node.sec # mtime \/ node.frac # "zero"

\* mutant: the size comparison is left out
validate_integrity_nosize(i, disk) ==
    LET entry == Tracks[i]
        st    == disk[entry.rel_path]
    IN  IF st = NoNode
        THEN Err("TarIntegrityError", "missing", "stream", i)
        ELSE IF MtimeDrifted(st, entry.mtime)
        THEN Err("RuntimeError", "mtime", "stream", i)
        ELSE NoErr

\* TarStreamGenerator._validate_integrity
_validate_integrity(i, disk) ==
    LET entry == Tracks[i]
        st    == disk[entry.rel_path]
    IN  IF st = NoNode
        THEN Err("TarIntegrityError", "missing", "stream", i)
        ELSE IF MtimeDrifted(st, entry.mtime)
        THEN Err("RuntimeError", "mtime", "stream", i)
        ELSE IF st.size # entry.size
        THEN Err("RuntimeError", "size", "stream", i)
        ELSE NoErr

\* mutant: the digest is computed for a resumed file as well
md5_always(local_skip) == TRUE

\* hashlib.md5() if local_skip == 0 else None
md5_hash(local_skip) == local_skip = 0

\* _stream_file_content_safely up to the open(): window test and the
\* stream-time integrity check
ContentCheck ==
    /\ pc = "content"
    /\ LET entry         == Tracks[play.entry]
           content_start == entry.start_offset + TAR_BLOCK_SIZE
           content_end   == content_start + entry.size
           local_skip    == Max(0, play.start_offset - content_start)
           check         == _validate_integrity(play.entry, fs)
       IN  IF play.start_offset >= content_end
           THEN /\ play' = [play EXCEPT !.md5 = FALSE]
                /\ pc' = "padding"
                /\ UNCHANGED err
           ELSE IF check # NoErr
           THEN /\ Fail(check)
                /\ UNCHANGED play
           ELSE /\ play' = [play EXCEPT !.local_skip = local_skip,
                                        !.bytes_remaining = entry.size - local_skip,
                                        !.md5 = md5_hash(local_skip)]
                /\ pc' = "open"
                /\ UNCHANGED err
    /\ UNCHANGED <<fs, tapeExists, tape, drift, envSteps, events, full, hdr, rec, other, scan>>

\* open(entry.source_path, "rb") and the seek
OpenFile ==
    /\ pc = "open"
    /\ LET node == fs[Tracks[play.entry].rel_path]
       IN  IF node = NoNode \/ node.kind = "dir"
           THEN /\ Fail(Err("TarIntegrityError", "read", "stream", play.entry))
                /\ UNCHANGED play
           ELSE /\ play' = [play EXCEPT !.fh = [open |-> TRUE,
                                                pos |-> play.local_skip,
                                                orphan |-> NoNode]]
                /\ pc' = "read"
                /\ UNCHANGED err
    /\ UNCHANGED <<fs, tapeExists, tape, drift, envSteps, events, full, hdr, rec, other, scan>>

\* the inode an open handle reads: the path's file, or the unlinked file
HandleNode ==
    IF play.fh.orphan # NoNode THEN play.fh.orphan
    ELSE fs[Tracks[play.entry].rel_path]

\* mutant: leaving the block keeps the handle
Closed_leaked(p) == p

\* leaving 'with open(entry.source_path, "rb") as f', normally or by an
\* exception: the handle is released
Closed(p) == [p EXCEPT !.fh = NoHandle]

\* mutant: one read asks for everything that remains of the file
read_size_whole(chunk_size, bytes_remaining) == bytes_remaining

\* read_size = min(chunk_size, bytes_remaining)
read_size(chunk_size, bytes_remaining) == Min(chunk_size, bytes_remaining)

\* one turn of the read loop, or the over-read probe after it
ReadChunk ==
    /\ pc = "read"
    /\ LET entry     == Tracks[play.entry]
           node      == HandleNode
           got       == Max(0, Min(read_size(play.chunk_size,
                                             play.bytes_remaining),
                                   node.size - play.fh.pos))
       IN  IF play.bytes_remaining > 0
           THEN IF got = 0
                THEN /\ Fail(Err("RuntimeError", "shrunk", "stream", play.entry))
                     /\ play' = Closed(play)
                     /\ UNCHANGED events
                ELSE /\ play' = [play EXCEPT !.bytes_remaining = @ - got,
                                             !.fh.pos = @ + got]
                     /\ Yield(Data(play.entry,
                                   ContentRun(entry.rel_path, node.ver,
                                              play.fh.pos, got)))
                     /\ UNCHANGED <<pc, err>>
           ELSE IF play.local_skip = 0 /\ node.size > play.fh.pos
                THEN /\ Fail(Err("RuntimeError", "grew", "stream", play.entry))
                     /\ play' = Closed(play)
                     /\ UNCHANGED events
                ELSE /\ play' = Closed(play)
                     /\ pc' = "padding"
                     /\ UNCHANGED <<events, err>>
    /\ UNCHANGED <<fs, tapeExists, tape, drift, envSteps, full, hdr, rec, other, scan>>

\* TarStreamGenerator._emit_padding
EmitPadding ==
    /\ pc = "padding"
    /\ LET entry        == Tracks[play.entry]
           content_end  == entry.start_offset + TAR_BLOCK_SIZE + entry.size
           padding_end  == entry.end_offset
           local_skip   == Max(0, play.start_offset - content_end)
           pad_size     == padding_end - content_end
       IN  IF \/ play.start_offset >= padding_end
              \/ content_end = padding_end
              \/ pad_size - local_skip <= 0
           THEN UNCHANGED events
           ELSE Yield(Data(play.entry, NulRun(pad_size - local_skip)))
    /\ pc' = "file_end"
    /\ UNCHANGED <<fs, tapeExists, tape, drift, envSteps, play, err, full, hdr, rec, other, scan>>

\* FILE_END and the bookkeeping at the bottom of the loop
EmitFileEnd ==
    /\ pc = "file_end"
    /\ Yield([type |-> "FILE_END", track |-> play.entry,
              end_offset |-> Tracks[play.entry].end_offset,
              md5sum |-> play.md5 /\ has_content(Tracks[play.entry])])
    /\ play' = [play EXCEPT !.last_offset = Tracks[play.entry].end_offset,
                            !.md5 = FALSE]
    /\ pc' = "loop"
    /\ UNCHANGED <<fs, tapeExists, tape, drift, envSteps, err, full, hdr, rec, other, scan>>

\* TarStreamGenerator._emit_tape_footer(start_offset, last_offset)
EmitFooter ==
    /\ pc = "footer"
    /\ LET footer_start == play.last_offset
           footer_end   == footer_start + TAR_FOOTER_SIZE
           local_skip   == Max(0, play.start_offset - footer_start)
       IN  IF play.start_offset >= footer_end \/ TAR_FOOTER_SIZE - local_skip <= 0
           THEN UNCHANGED events
           ELSE Yield(Data(0, NulRun(TAR_FOOTER_SIZE - local_skip)))
    /\ pc' = "completed"
    /\ UNCHANGED <<fs, tapeExists, tape, drift, envSteps, play, err, full, hdr, rec, other, scan>>

EmitCompleted ==
    /\ pc = "completed"
    /\ Yield([type |-> "TAPE_COMPLETED"])
    /\ pc' = "done"
    /\ UNCHANGED <<fs, tapeExists, tape, drift, envSteps, play, err, full, hdr, rec, other, scan>>

\* -------------------------------------------------------------- byte runs
RECURSIVE Runs(_)
Runs(evs) ==
    IF evs = <<>> THEN <<>>
    ELSE (IF Head(evs).type = "FILE_DATA" THEN <<Head(evs).data>> ELSE <<>>)
            \o Runs(Tail(evs))

RECURSIVE TotalLen(_)
TotalLen(runs) ==
    IF runs = <<>> THEN 0 ELSE Head(runs).len + TotalLen(Tail(runs))

SameSource(a, b) ==
    /\ a.src = b.src /\ a.id = b.id /\ a.ver = b.ver
    /\ a.src = "nul" \/ a.lo + a.len = b.lo

\* canonical form of a byte string: no empty run, adjacent runs merged
RECURSIVE Normalise(_)
Normalise(runs) ==
    IF runs = <<>> THEN <<>>
    ELSE IF Head(runs).len = 0 THEN Normalise(Tail(runs))
    ELSE LET rest == Normalise(Tail(runs))
         IN  IF rest # <<>> /\ SameSource(Head(runs), Head(rest))
             THEN <<[Head(runs) EXCEPT !.len = @ + Head(rest).len]>> \o Tail(rest)
             ELSE <<Head(runs)>> \o rest

\* the byte string with its first n bytes removed
RECURSIVE DropBytes(_, _)
DropBytes(runs, n) ==
    IF runs = <<>> \/ n <= 0 THEN runs
    ELSE IF Head(runs).len <= n THEN DropBytes(Tail(runs), n - Head(runs).len)
    ELSE <<[Head(runs) EXCEPT !.lo = IF @ = 0 /\ Head(runs).src = "nul"
                                      THEN 0 ELSE @ + n,
                              !.len = @ - n]>> \o Tail(runs)

\* the bytes at positions [lo, hi) of a byte string
RECURSIVE TakeBytes(_, _)
TakeBytes(runs, n) ==
    IF runs = <<>> \/ n <= 0 THEN <<>>
    ELSE IF Head(runs).len <= n
    THEN <<Head(runs)>> \o TakeBytes(Tail(runs), n - Head(runs).len)
    ELSE <<[Head(runs) EXCEPT !.len = n]>>
Slice(runs, lo, hi) == Normalise(TakeBytes(DropBytes(runs, lo), hi - lo))

Bytes(evs) == Normalise(Runs(evs))

\* DatabaseSession.__exit__: the connection of db_proxy is closed, whoever
\* else has a cursor on it
Orphaned(o) == IF o.pc = "streaming" THEN [pc |-> "orphaned"] ELSE o

\* the consumer has seen the generator end (exhausted or raised); the with
\* block of play has closed the tape
PlayReturn ==
    /\ pc \in {"done", "failed", "cancelled"}
    /\ pc' = "idle"
    /\ other' = Orphaned(other)
    /\ full' = IF pc # "cancelled" /\ play.start_offset = 0 /\ drift # "other"
               THEN [known |-> TRUE, bytes |-> Bytes(events)]
               ELSE full
    /\ play' = NoPlay
    /\ events' = <<>>
    /\ err' = NoErr
    /\ UNCHANGED <<fs, tapeExists, tape, drift, envSteps, hdr, rec, scan>>

\* the positions of a generator that has started and not ended
Running ==
    {"loop", "header", "content", "open", "read", "padding", "file_end",
     "footer", "completed"}

\* The consumer stops iterating and the generator is closed (close(), or the
\* finalizer of the dropped generator): GeneratorExit is raised at the
\* suspended yield and travels through the with blocks, which release the
\* file and the tape.
Cancel ==
    /\ pc \in Running
    /\ pc' = "cancelled"
    /\ play' = Closed(play)
    /\ other' = Orphaned(other)
    /\ UNCHANGED <<fs, tapeExists, tape, drift, envSteps, events, err, full, hdr, rec, scan>>

\* ---------------------------------------------------- the rest of the world
\* Another process changes the recorded directory after the commit.
EnvReady == tapeExists /\ envSteps < MaxEnvSteps

Mutate(p, node) ==
    /\ fs' = [fs EXCEPT ![p] = node]
    /\ envSteps' = envSteps + 1
    /\ drift' = IF p = RootPath /\ drift # "other" THEN "root" ELSE "other"
    /\ full' = IF p = RootPath THEN full ELSE NoFull
    /\ UNCHANGED <<tapeExists, tape, pc, events, err, hdr, rec, other, scan>>

\* os.utime
Touch ==
    /\ EnvReady
    /\ \E p \in Paths, t \in TouchTimes :
          /\ fs[p] # NoNode
          /\ [sec |-> fs[p].sec, frac |-> fs[p].frac] # t
          /\ Mutate(p, [fs[p] EXCEPT !.sec = t.sec, !.frac = t.frac])
    /\ UNCHANGED play

\* the file is rewritten in place with other content of another length; its
\* mtime moves, or is put back (utime) to what it was
Rewrite ==
    /\ EnvReady
    /\ \E p \in {q \in Paths : fs[q].kind = "file"}, n \in ResizeSizes :
       \E t \in TouchTimes \cup {[sec |-> fs[p].sec, frac |-> fs[p].frac]} :
          /\ fs[p].size # n
          /\ Mutate(p, [fs[p] EXCEPT !.size = n, !.ver = @ + 1,
                                     !.sec = t.sec, !.frac = t.frac])
    /\ UNCHANGED play

\* chmod
Chmod ==
    /\ EnvReady
    /\ \E p \in Paths, m \in Modes :
          /\ fs[p] # NoNode /\ fs[p].kind = "file"
          /\ fs[p].mode # m
          /\ Mutate(p, [fs[p] EXCEPT !.mode = m])
    /\ UNCHANGED play

\* the symlink is replaced by one with another target
Retarget ==
    /\ EnvReady
    /\ \E p \in Paths, l \in LinkTargets :
          /\ fs[p] # NoNode /\ fs[p].kind = "symlink"
          /\ fs[p].link # l
          /\ Mutate(p, [fs[p] EXCEPT !.link = l, !.size = Len(l)])
    /\ UNCHANGED play

\* unlink / rmdir of a leaf; an open handle keeps the unlinked file
Delete ==
    /\ EnvReady
    /\ \E p \in Paths \ {RootPath} :
          /\ fs[p] # NoNode
          /\ \A q \in Paths : q # RootPath /\ Parent(q) = p => fs[q] = NoNode
          /\ Mutate(p, NoNode)
          /\ play' = IF /\ pc = "read"
                        /\ play.fh.open
                        /\ play.fh.orphan = NoNode
                        /\ Tracks[play.entry].rel_path = p
                     THEN [play EXCEPT !.fh.orphan = fs[p]]
                     ELSE play

Env ==
    \/ Touch
    \/ Rewrite
    \/ Chmod
    \/ Retarget
    \/ Delete

Engine ==
    \/ NextEntry
    \/ EmitHeader
    \/ ContentCheck
    \/ OpenFile
    \/ ReadChunk
    \/ EmitPadding
    \/ EmitFileEnd
    \/ EmitFooter
    \/ EmitCompleted

Next ==
    \/ Commit
    \/ PlayStart
    \/ Engine
    \/ PlayReturn
    \/ Cancel
    \/ Env

Spec == Init /\ [][Next]_vars

\* ------------------------------------------- a second generator of play
\* The second generator is followed through what it shares with the first:
\* the connection of db_proxy.  Its own Tracks come from its own cursor.

\* the first call of next(): with self.tape, pre-flight, the query is built
OtherStart ==
    /\ other.pc = "idle"
    /\ tapeExists
    /\ other' = [pc |-> "entered"]
    /\ UNCHANGED <<fs, tapeExists, tape, drift, envSteps, pc, play, events,
                   err, full, hdr, rec, scan>>

\* a Track is fetched: the first fetch executes the query, a fetch from a
\* cursor whose connection was closed raises
OtherFetch ==
    /\ other.pc \in {"entered", "streaming", "orphaned"}
    /\ other' = IF other.pc = "orphaned" THEN [pc |-> "raised"]
                ELSE [pc |-> "streaming"]
    /\ UNCHANGED <<fs, tapeExists, tape, drift, envSteps, pc, play, events,
                   err, full, hdr, rec, scan>>

\* the generator is exhausted, or its consumer closes it while it is
\* suspended at a yield: the with block closes the tape, and with it the
\* connection the first generator's cursor reads from
OtherEnd ==
    /\ other.pc \in {"entered", "streaming"}
    /\ \E how \in {"finished", "abandoned"} :
          /\ how = "finished" => other.pc = "streaming"
          /\ other' = [pc |-> how]
    /\ play' = IF pc # "idle" /\ play.cursor = "live"
               THEN [play EXCEPT !.cursor = "dead"]
               ELSE play
    /\ UNCHANGED <<fs, tapeExists, tape, drift, envSteps, pc, events, err,
                   full, hdr, rec, scan>>

Other ==
    \/ OtherStart
    \/ OtherFetch
    \/ OtherEnd

NextPlayers ==
    \/ Commit
    \/ PlayStart
    \/ Engine
    \/ PlayReturn
    \/ Other

SpecPlayers == Init /\ [][NextPlayers]_vars

\* ----------------------------------------------- the codec on its own inputs
EmptyTree == [p \in Paths |-> IF p = RootPath THEN DirNode ELSE NoNode]

InitHeader ==
    /\ fs = EmptyTree
    /\ tapeExists = FALSE
    /\ tape = NoTape
    /\ drift = "none"
    /\ envSteps = 0
    /\ pc = "idle"
    /\ play = NoPlay
    /\ events = <<>>
    /\ err = NoErr
    /\ full = NoFull
    /\ hdr \in {[pc |-> "new", entry |-> e] : e \in HeaderEntries}
    /\ rec = NoRecorders
    /\ other = NoOther
    /\ scan = NoScan

\* TarStreamGenerator._build_header: TarHeader(entry).build()
Build ==
    /\ hdr.pc = "new"
    /\ hdr' = [pc |-> "built", entry |-> hdr.entry, out |-> build(hdr.entry)]
    /\ UNCHANGED <<fs, tapeExists, tape, drift, envSteps, pc, play, events,
                   err, full, rec, other, scan>>

NextHeader == Build

SpecHeader == InitHeader /\ [][NextHeader]_vars

\* ------------------------------------ from the disk to the codec, one entry
\* what discovery can meet under a name: a file, a directory, or a symlink
\* with one of the targets
RenderNodes ==
    {FileNode(513, "zero", 0), DirNode} \cup {LinkNode(l) : l \in HeaderTexts}

InitRender ==
    /\ fs = EmptyTree
    /\ tapeExists = FALSE
    /\ tape = NoTape
    /\ drift = "none"
    /\ envSteps = 0
    /\ pc = "idle"
    /\ play = NoPlay
    /\ events = <<>>
    /\ err = NoErr
    /\ full = NoFull
    /\ hdr \in {[pc |-> "found", arcname |-> p, node |-> n, anonymize |-> a] :
                   p \in HeaderPaths, n \in RenderNodes, a \in BOOLEAN}
    /\ rec = NoRecorders
    /\ other = NoOther
    /\ scan = NoScan

\* TapeRecorder._add_to_buffer: the Track of create_track goes to the buffer
\* (and from there to the store) as it is
AddToBuffer ==
    /\ hdr.pc = "found"
    /\ hdr' = [pc |-> "persisted",
               track |-> create_track(hdr.node, hdr.arcname, hdr.arcname,
                                      hdr.anonymize)]
    /\ UNCHANGED <<fs, tapeExists, tape, drift, envSteps, pc, play, events,
                   err, full, rec, other, scan>>

\* the stored Track as the codec reads it
CodecEntry(track) ==
    [arc_path |-> track.arc_path, size |-> ToBits(track.size),
     mtime |-> ToBits(track.mtime), mode |-> ToBits(track.mode),
     uid |-> ToBits(track.uid), gid |-> ToBits(track.gid),
     uname |-> track.uname, gname |-> track.gname,
     is_dir |-> track.is_dir, is_symlink |-> track.is_symlink,
     linkname |-> track.linkname]

\* TarStreamGenerator._build_header on a Track read back from the store
RenderTrack ==
    /\ hdr.pc = "persisted"
    /\ hdr' = [pc |-> "rendered", track |-> hdr.track,
               out |-> build(CodecEntry(hdr.track))]
    /\ UNCHANGED <<fs, tapeExists, tape, drift, envSteps, pc, play, events,
                   err, full, rec, other, scan>>

NextRender ==
    \/ AddToBuffer
    \/ RenderTrack

SpecRender == InitRender /\ [][NextRender]_vars

\* ------------------------------------------ the package facade (core.py)
\* core.TarHeader.set_octal: the padded digits are measured against the
\* whole field, then written with their NUL by a slice assignment, which
\* makes the bytearray longer when the data is longer than the slice
core_set_octal(h, offset, field_width, value) ==
    LET octal_string == oct(value)
        max_digits   == field_width - 1
        padded_octal == zfill(octal_string, max_digits)
        final_string == padded_octal \o <<0>>
    IN  IF h.error # NoError THEN h
        ELSE IF Len(padded_octal) > field_width
        THEN Raise(h, "ValueError", "too large for field width", offset)
        ELSE [h EXCEPT !.buffer = Assign(@, offset, offset + field_width,
                                         final_string)]

\* core.TarHeader.set_bytes
core_set_bytes(h, offset, value) ==
    IF h.error # NoError THEN h
    ELSE [h EXCEPT !.buffer = Assign(@, offset, offset + Len(value), value)]

\* core.TarStreamGenerator._build_header (set_string, _split_path and
\* calculate_checksum read as in header.py; the path with the directory's
\* '/' is the one split here)
core_build_header(item) ==
    LET full_arcpath ==
            IF item.is_dir /\ (item.arc_path = <<>>
                                  \/ item.arc_path[Len(item.arc_path)] # Slash)
            THEN item.arc_path \o <<Slash>> ELSE item.arc_path
        split == _split_path(full_arcpath)
        h0 == [buffer |-> Rep(0, 512), error |-> NoError]
        h1 == IF ~split.ok
              THEN Raise(h0, "ValueError", "cannot be split", 0)
              ELSE set_string(h0, 0, 100, split.name)
        h2 == core_set_octal(core_set_octal(core_set_octal(
                  h1, 100, 8, item.mode), 108, 8, item.uid), 116, 8, item.gid)
        h3 == core_set_octal(core_set_octal(h2, 124, 12, item.size),
                             136, 12, item.mtime)
        type_flag == IF item.is_symlink THEN 50
                     ELSE IF item.is_dir THEN 53 ELSE 48
        h4 == core_set_bytes(h3, 156, <<type_flag>>)
        h5 == IF item.is_symlink
              THEN set_string(h4, 157, 100, item.linkname) ELSE h4
        h6 == core_set_bytes(core_set_bytes(
                  h5, 257, <<117, 115, 116, 97, 114, 0>>), 263, <<48, 48>>)
        h7 == set_string(set_string(h6, 265, 32, item.uname),
                         297, 32, item.gname)
        h8 == set_string(h7, 345, 155, split.prefix)
    IN  calculate_checksum(h8)

\* entries without content, so that FILE_END follows the header: directories
\* and symlinks with every owner, mode and time, and the sizes a TarEntry
\* can be given
FacadeEntries ==
    {[BaseEntry EXCEPT !.is_dir = d, !.is_symlink = ~d,
                       !.linkname = IF d THEN <<>> ELSE <<116>>,
                       !.uid = u, !.gid = g, !.mode = m] :
        d \in BOOLEAN, u \in HeaderNumbers, g \in HeaderNumbers,
        m \in {ToBits(420), Rep(1, 12)}}
    \cup {[BaseEntry EXCEPT !.is_dir = TRUE, !.size = z, !.mtime = t] :
            z \in HeaderNumbers, t \in HeaderNumbers}

InitFacade ==
    /\ fs = EmptyTree
    /\ tapeExists = FALSE
    /\ tape = NoTape
    /\ drift = "none"
    /\ envSteps = 0
    /\ pc = "idle"
    /\ play = NoPlay
    /\ events = <<>>
    /\ err = NoErr
    /\ full = NoFull
    /\ hdr \in {[pc |-> "start", entry |-> e, _emitted_bytes |-> 0,
                  events |-> <<>>, error |-> NoError] : e \in FacadeEntries}
    /\ rec = NoRecorders
    /\ other = NoOther
    /\ scan = NoScan

\* yield self._create_event_start(entry)
FacadeStart ==
    /\ hdr.pc = "start"
    /\ hdr' = [hdr EXCEPT
            !.pc = "header",
            !.events = Append(@, [type |-> "FILE_START",
                                  start_offset |-> hdr._emitted_bytes])]
    /\ UNCHANGED <<fs, tapeExists, tape, drift, envSteps, pc, play, events,
                   err, full, rec, other, scan>>

\* yield self._emit_header(entry)
FacadeHeader ==
    /\ hdr.pc = "header"
    /\ LET header_bytes == core_build_header(hdr.entry)
       IN  hdr' = IF header_bytes.error # NoError
                  THEN [hdr EXCEPT !.pc = "raised",
                                   !.error = header_bytes.error]
                  ELSE [hdr EXCEPT
                          !.pc = "end",
                          !._emitted_bytes = @ + Len(header_bytes.buffer),
                          !.events = Append(@, [type |-> "FILE_DATA",
                                                data |-> header_bytes.buffer])]
    /\ UNCHANGED <<fs, tapeExists, tape, drift, envSteps, pc, play, events,
                   err, full, rec, other, scan>>

\* yield self._create_event_end(entry, md5_hash), for an entry without
\* content
FacadeEnd ==
    /\ hdr.pc = "end"
    /\ hdr' = [hdr EXCEPT
            !.pc = "next",
            !.events = Append(@, [type |-> "FILE_END",
                                  end_offset |-> hdr._emitted_bytes])]
    /\ UNCHANGED <<fs, tapeExists, tape, drift, envSteps, pc, play, events,
                   err, full, rec, other, scan>>

NextFacade ==
    \/ FacadeStart
    \/ FacadeHeader
    \/ FacadeEnd

SpecFacade == InitFacade /\ [][NextFacade]_vars

\* ------------------------------------------- discovery, one step at a time
\* directories deeper than this are not listed; the trees are two levels deep
MaxScanDepth == 3

Dot == <<46>>                              \* "."
DotDot == <<46, 46>>                       \* ".."
NoPath == <<<<>>>>

\* os.listdir order after sorted()
ScanNames == <<NameA, NameADash, NameB>>

\* trees with symlinks to a sibling directory ("a"), to the directory that
\* holds the link (".") and to the one above it (".."), and dangling ("t")
ScanNodes(p) ==
    IF p = RootPath THEN {DirNode}
    ELSE IF p = PathA THEN {DirNode, FileNode(1, "zero", 0), NoNode}
    ELSE IF p = PathADash
    THEN {LinkNode(NameA), LinkNode(Dot), LinkNode(<<116>>), SocketNode, NoNode}
    ELSE {FileNode(1, "zero", 0), LinkNode(DotDot), LinkNode(Dot), NoNode}

ScanTrees ==
    {t \in [Paths -> UNION {ScanNodes(p) : p \in Paths}] :
        /\ \A p \in Paths : t[p] \in ScanNodes(p)
        /\ \A p \in Paths \ {RootPath} :
              t[p] # NoNode => t[Parent(p)].kind = "dir"}

\* where the symlink at q leads
LinkDest(disk, q) ==
    IF disk[q].link = Dot THEN Parent(q)
    ELSE IF disk[q].link = DotDot
    THEN (IF Len(q) >= 2 THEN Parent(Parent(q)) ELSE NoPath)
    ELSE Parent(q) \o <<disk[q].link>>

\* the file a path names, the symlinks among its directories followed (as
\* the kernel does), the last component not
RECURSIVE Real(_, _)
RECURSIVE RealDir(_, _)
Real(disk, p) ==
    IF p = RootPath THEN RootPath
    ELSE LET d == RealDir(disk, Parent(p))
             q == d \o <<p[Len(p)]>>
         IN  IF d = NoPath \/ q \notin Paths THEN NoPath
             ELSE IF disk[q] = NoNode THEN NoPath
             ELSE q

\* the directory a path names, the last component followed too
RealDir(disk, p) ==
    LET q == Real(disk, p)
    IN  IF q = NoPath THEN NoPath
        ELSE IF disk[q].kind = "dir" THEN q
        ELSE IF disk[q].kind = "symlink"
        THEN LET d == LinkDest(disk, q)
             IN  IF d \in Paths /\ disk[d].kind = "dir" THEN d ELSE NoPath
        ELSE NoPath

lstat(disk, p) == IF Real(disk, p) = NoPath THEN NoNode ELSE disk[Real(disk, p)]

\* Path.is_dir follows symlinks, Path.is_symlink does not
is_dir(disk, p) == RealDir(disk, p) # NoPath
is_symlink(disk, p) == lstat(disk, p).kind = "symlink"

\* sorted(os.listdir(curr_dir))
listdir(disk, p) ==
    LET d == RealDir(disk, p)
        there(n) == d \o <<n>> \in Paths /\ disk[d \o <<n>>] # NoNode
    IN  SelectSeq(ScanNames, there)

\* mutant: whatever is_dir() accepts is descended into
descends_following(disk, p) == is_dir(disk, p)

\* full_path.is_dir() and not full_path.is_symlink()
descends(disk, p) == is_dir(disk, p) /\ ~is_symlink(disk, p)

InitScan ==
    /\ fs \in ScanTrees
    /\ tapeExists = FALSE
    /\ tape = NoTape
    /\ drift = "none"
    /\ envSteps = 0
    /\ pc = "idle"
    /\ play = NoPlay
    /\ events = <<>>
    /\ err = NoErr
    /\ full = NoFull
    /\ hdr = NoHeader
    /\ rec = NoRecorders
    /\ other = NoOther
    /\ scan = [pc |-> "new"]

\* _run_discovery up to the loop: the root is added, the stack holds it
ScanStart ==
    /\ scan.pc = "new"
    /\ scan' = [pc |-> "pop", stack |-> <<RootPath>>, curr |-> RootPath,
                entries |-> <<>>, listed |-> <<>>,
                buffer |-> <<create_track(fs[RootPath], RootPath,
                                          ArcName(RootPath), TRUE)>>]
    /\ UNCHANGED <<fs, tapeExists, tape, drift, envSteps, pc, play, events,
                   err, full, hdr, rec, other>>

\* while stack: curr_dir = stack.pop(); entries = sorted(os.listdir(curr_dir))
ScanPop ==
    /\ scan.pc = "pop"
    /\ IF scan.stack = <<>>
       THEN scan' = [scan EXCEPT !.pc = "done"]
       ELSE LET curr == scan.stack[Len(scan.stack)]
            IN  scan' = [scan EXCEPT
                    !.pc = "list",
                    !.curr = curr,
                    !.stack = SubSeq(scan.stack, 1, Len(scan.stack) - 1),
                    !.listed = Append(@, curr),
                    !.entries = IF Len(curr) >= MaxScanDepth THEN <<>>
                                ELSE listdir(fs, curr)]
    /\ UNCHANGED <<fs, tapeExists, tape, drift, envSteps, pc, play, events,
                   err, full, hdr, rec, other>>

\* one turn of 'for name in entries' (no exclusion rule set)
ScanEntry ==
    /\ scan.pc = "list"
    /\ IF scan.entries = <<>>
       THEN scan' = [scan EXCEPT !.pc = "pop"]
       ELSE LET full_path == scan.curr \o <<Head(scan.entries)>>
                node      == lstat(fs, full_path)
            IN  scan' = [scan EXCEPT
                    !.entries = Tail(@),
                    !.buffer = IF Supported(node)
                               THEN Append(@, create_track(node, full_path,
                                               ArcName(full_path), TRUE))
                               ELSE @,
                    !.stack = IF descends(fs, full_path)
                              THEN Append(@, full_path) ELSE @]
    /\ UNCHANGED <<fs, tapeExists, tape, drift, envSteps, pc, play, events,
                   err, full, hdr, rec, other>>

NextScan ==
    \/ ScanStart
    \/ ScanPop
    \/ ScanEntry

\* the loop is sequential code: it keeps running while it can
SpecScan == InitScan /\ [][NextScan]_vars /\ WF_vars(NextScan)

\* ------------------------------------- recorders of one directory, interleaved
\* TapeRecorder.__init__: FileExistsError when the tape is there
RecorderNew(r, excludes) ==
    /\ rec.obj[r].state = "new"
    /\ \E anonymize \in BOOLEAN, exclude \in excludes :
          rec' = [rec EXCEPT !.obj[r] =
                     IF tapeExists THEN [state |-> "refused"]
                     ELSE [state |-> "ready", anonymize |-> anonymize,
                           exclude |-> exclude]]
    /\ UNCHANGED <<fs, tapeExists, tape, drift, envSteps, pc, play, events,
                   err, full, hdr, other, scan>>

\* TapeRecorder(directory, anonymize=...)
RecorderInit(r) == RecorderNew(r, {NoExclude})

\* TapeRecorder(directory, exclude=..., anonymize=...)
RecorderInitExclude(r) == RecorderNew(r, Excludes)

\* TapeRecorder.commit: discovery, layout and metadata in the recorder's own
\* temporary store, then _finalize_storage: mkdir(exist_ok=True) of D/.tartape
\* (which touches the root directory's mtime when it creates it) and
\* shutil.move of the store onto D/.tartape/index.db
RecorderCommit(r) ==
    /\ rec.obj[r].state = "ready"
    /\ LET made == CommittedTape(fs, rec.obj[r].anonymize, rec.obj[r].exclude,
                                 rec.above, Meta)
       IN  /\ tape' = made
           /\ rec' = [rec EXCEPT !.obj[r] = [state       |-> "committed",
                                             anonymize   |-> @.anonymize,
                                             exclude     |-> @.exclude,
                                             fingerprint |-> made.fingerprint,
                                             tracks      |-> made.tracks,
                                             at          |-> envSteps],
                                 !.metaDir = TRUE]
    /\ tapeExists' = TRUE
    /\ \E t \in {[sec |-> fs[RootPath].sec, frac |-> fs[RootPath].frac]}
                    \cup (IF rec.metaDir THEN {} ELSE TouchTimes) :
          /\ fs' = [fs EXCEPT ![RootPath].sec = t.sec, ![RootPath].frac = t.frac]
          /\ drift' = IF fs'[RootPath] = fs[RootPath] THEN "none" ELSE "root"
    /\ UNCHANGED <<envSteps, pc, play, events, err, full, hdr, other, scan>>

\* the user deletes D/.tartape/index.db to record the directory again
RemoveTape ==
    /\ tapeExists
    /\ tapeExists' = FALSE
    /\ tape' = NoTape
    /\ UNCHANGED <<fs, drift, envSteps, pc, play, events, err, full, hdr, rec, other, scan>>

\* commit raises inside its try block (lines 66-86: an OSError of the probe,
\* a database error): the finally clause closes the session and removes the
\* temporary directory, _finalize_storage is not reached
CommitStages == {"discovery", "flush", "layout", "fingerprint"}
RecorderFail(r) ==
    /\ rec.obj[r].state = "ready"
    /\ \E stage \in CommitStages :
          rec' = [rec EXCEPT !.obj[r] = [state |-> "failed", stage |-> stage]]
    /\ UNCHANGED <<fs, tapeExists, tape, drift, envSteps, pc, play, events,
                   err, full, hdr, other, scan>>

\* index.db while shutil.move is copying onto it: the file is there and no
\* row of the store can be read from it yet
TruncatedStore == NoTape

\* TapeRecorder.commit when the temporary directory (tempfile's default
\* location) is on another filesystem than D: shutil.move cannot rename and
\* copies the store onto D/.tartape/index.db, which it first creates or
\* truncates
RecorderCopyStart(r) ==
    /\ rec.obj[r].state = "ready"
    /\ LET made == CommittedTape(fs, rec.obj[r].anonymize, rec.obj[r].exclude,
                                 rec.above, Meta)
       IN  rec' = [rec EXCEPT !.obj[r] = [state       |-> "moving",
                                          anonymize   |-> @.anonymize,
                                          exclude     |-> @.exclude,
                                          fingerprint |-> made.fingerprint,
                                          tracks      |-> made.tracks,
                                          total_size  |-> made.total_size,
                                          at          |-> envSteps],
                              !.metaDir = TRUE]
    /\ tape' = TruncatedStore
    /\ tapeExists' = TRUE
    /\ \E t \in {[sec |-> fs[RootPath].sec, frac |-> fs[RootPath].frac]}
                    \cup (IF rec.metaDir THEN {} ELSE TouchTimes) :
          /\ fs' = [fs EXCEPT ![RootPath].sec = t.sec, ![RootPath].frac = t.frac]
          /\ drift' = IF fs'[RootPath] = fs[RootPath] THEN "none" ELSE "root"
    /\ UNCHANGED <<envSteps, pc, play, events, err, full, hdr, other, scan>>

\* the copy is complete; commit returns the fingerprint
RecorderCopyEnd(r) ==
    /\ rec.obj[r].state = "moving"
    /\ tape' = [tracks      |-> rec.obj[r].tracks,
                total_size  |-> rec.obj[r].total_size,
                fingerprint |-> rec.obj[r].fingerprint]
    /\ tapeExists' = TRUE
    /\ rec' = [rec EXCEPT !.obj[r] = [state       |-> "committed",
                                      anonymize   |-> @.anonymize,
                                      exclude     |-> @.exclude,
                                      fingerprint |-> @.fingerprint,
                                      tracks      |-> @.tracks,
                                      at          |-> @.at]]
    /\ UNCHANGED <<fs, drift, envSteps, pc, play, events, err, full, hdr, other, scan>>

NextRecorder ==
    \/ \E r \in Recorders : RecorderInit(r)
    \/ \E r \in Recorders : RecorderCommit(r)
    \/ \E r \in Recorders : RecorderFail(r)
    \/ \E r \in Recorders : RecorderCopyStart(r)
    \/ \E r \in Recorders : RecorderCopyEnd(r)
    \/ RemoveTape
    \/ Env

SpecRecorder == Init /\ [][NextRecorder]_vars

\* ------------------------------------- discovery under the exclusion settings
\* a directory at one of the two locations, recorded with an exclude setting;
\* removing the tape lets the directory be recorded again with D/.tartape
\* in it
InitDiscovery ==
    /\ fs \in Trees
    /\ tapeExists = FALSE
    /\ tape = NoTape
    /\ drift = "none"
    /\ envSteps = 0
    /\ pc = "idle"
    /\ play = NoPlay
    /\ events = <<>>
    /\ err = NoErr
    /\ full = NoFull
    /\ hdr = NoHeader
    /\ rec \in {[NoRecorders EXCEPT !.above = a] : a \in Aboves}
    /\ other = NoOther
    /\ scan = NoScan

NextDiscovery ==
    \/ \E r \in Recorders : RecorderInitExclude(r)
    \/ \E r \in Recorders : RecorderCommit(r)
    \/ RemoveTape

SpecDiscovery == InitDiscovery /\ [][NextDiscovery]_vars


\* ================================================================== claims
Ended == pc \in {"done", "failed"}
Offset == play.start_offset
EventsOf(kind) == {k \in 1..Len(events) : events[k].type = kind}
Completed ==
    /\ events # <<>>
    /\ events[Len(events)].type = "TAPE_COMPLETED"

\* C1: with the filesystem unchanged between the two runs, the bytes of
\* play(o) are the bytes of play(0) without their first o bytes, for every
\* o in 0..total_size.
C1_BitPerfectResume ==
    (Ended /\ full.known /\ drift # "other"
        /\ Offset >= 0 /\ Offset <= tape.total_size)
    => Bytes(events) = Normalise(DropBytes(full.bytes, Offset))

\* the stream the wire format prescribes for the committed tape
RECURSIVE WireOf(_)
WireOf(i) ==
    IF i > Len(Tracks) THEN <<NulRun(TAR_FOOTER_SIZE)>>
    ELSE <<HeaderRun(i, 0, TAR_BLOCK_SIZE)>>
            \o (IF has_content(Tracks[i])
                THEN <<ContentRun(Tracks[i].rel_path, 0, 0, Tracks[i].size),
                       NulRun(Tracks[i].end_offset - Tracks[i].start_offset
                                - TAR_BLOCK_SIZE - Tracks[i].size)>>
                ELSE <<>>)
            \o WireOf(i + 1)
Wire == Normalise(WireOf(1))

\* C2: with the filesystem unchanged since commit, play(0) emits exactly
\* total_size bytes; the bytes at [start_offset, end_offset) of every Track
\* are its header, its content (regular files) and NUL padding up to the
\* next multiple of 512; the last 1024 bytes are NUL.
C2_WireFormat ==
    (Ended /\ Offset = 0 /\ drift # "other")
    => /\ Completed
       /\ TotalLen(Bytes(events)) = tape.total_size
       /\ \A i \in TrackIds :
             /\ (Tracks[i].end_offset - Tracks[i].start_offset) % TAR_BLOCK_SIZE = 0
             /\ Slice(Bytes(events), Tracks[i].start_offset, Tracks[i].end_offset)
                  = Slice(Wire, Tracks[i].start_offset, Tracks[i].end_offset)
       /\ Slice(Bytes(events), tape.total_size - TAR_FOOTER_SIZE, tape.total_size)
            = <<NulRun(TAR_FOOTER_SIZE)>>

\* C3: play(start_offset) with start_offset < 0 or start_offset >= total_size
\* raises a value error and emits no event.
C3_OffsetValidation ==
    (pc # "idle" /\ (Offset < 0 \/ Offset >= tape.total_size))
    => /\ pc = "failed"
       /\ err.kind = "ValueError"
       /\ events = <<>>

InFooter(o) == o >= tape.total_size - TAR_FOOTER_SIZE /\ o < tape.total_size

\* C4: a play started inside the footer emits no FILE_START and no FILE_END
\* and exactly total_size - o NUL bytes before TAPE_COMPLETED; the footer
\* region the engine uses is [total_size - 1024, total_size).
C4_FooterResume ==
    /\ (pc = "footer") => play.last_offset = tape.total_size - TAR_FOOTER_SIZE
    /\ (pc = "done" /\ InFooter(Offset))
       => /\ EventsOf("FILE_START") = {}
          /\ EventsOf("FILE_END") = {}
          /\ Bytes(events) = <<NulRun(tape.total_size - Offset)>>
          /\ Completed

DiskNode(i) == fs[Tracks[i].rel_path]
ContentEmitted(i, evs) ==
    \E k \in 1..Len(evs) :
        /\ evs[k].type = "FILE_DATA"
        /\ evs[k].track = i
        /\ evs[k].data.src = "content"

\* the content region of Track i is not empty and not wholly before the
\* requested window
ContentInWindow(i) ==
    /\ has_content(Tracks[i])
    /\ Tracks[i].size > 0
    /\ Offset < Tracks[i].start_offset + TAR_BLOCK_SIZE + Tracks[i].size

\* the file is missing, or its size or its (integer-second) mtime is not the
\* inventory's
FileMismatch(i) ==
    \/ DiskNode(i) = NoNode
    \/ DiskNode(i).sec # Tracks[i].mtime
    \/ DiskNode(i).size # Tracks[i].size

StaleDirOrLink(i) ==
    /\ DiskNode(i) # NoNode
    /\ \/ /\ Tracks[i].is_dir
          /\ Tracks[i].rel_path # RootPath
          /\ DiskNode(i).sec # Tracks[i].mtime
       \/ /\ Tracks[i].is_symlink
          /\ DiskNode(i).link # Tracks[i].linkname

\* C6: when a non-root directory Track whose mtime differs, or a symlink
\* Track whose target differs, is about to be emitted, the play aborts
\* instead of emitting the Track.
C6_DirLinkGate ==
    [][(/\ pc = "loop"
        /\ pc' # "loop"
        /\ play.query # <<>>
        /\ StaleDirOrLink(Head(play.query)))
       => pc' = "failed"]_vars

\* the disk with the root directory's mtime put back to the inventory's
RootRestored ==
    [fs EXCEPT ![RootPath].sec = Tracks[1].mtime, ![RootPath].frac = "zero"]

\* C7: when only the root directory's mtime changed, whatever error a play
\* raises (pre-flight verify or spot-check, resume-point check, stream) is
\* not about the root and is raised just the same against the disk with
\* the root's mtime restored; a play that runs to its end has emitted
\* TAPE_COMPLETED.
C7_RootMtimeExempt ==
    (drift = "root" /\ pc # "idle")
    => /\ err # NoErr =>
            /\ err.track # 1
            /\ err.at = "preflight" =>
                  err \in (_verify(RootRestored)
                              \cup _spot_check(SPOT_CHECK_SAMPLE, RootRestored))
            /\ err.at = "resume" => err = _verify_resume_point(Offset, RootRestored)
            /\ err.at = "stream" => err = _validate_integrity(err.track, RootRestored)
       /\ pc = "done" => Completed /\ err = NoErr

\* a fully verified play resumed inside the root's header ran to
\* TAPE_COMPLETED although the root's mtime is no longer the inventory's
C7_Witness ==
    /\ drift = "root"
    /\ fs[RootPath].sec # Tracks[1].mtime
    /\ pc = "done"
    /\ Completed
    /\ ~play.fast_verify
    /\ Offset > 0 /\ Offset < TAR_BLOCK_SIZE
    /\ Len(Tracks) >= 3

\* C8: a member that has not changed since commit and whose on-disk mtime
\* has a sub-second part never fails an mtime comparison.
C8_IntSecondMtime ==
    (drift # "other" /\ err # NoErr /\ err.track # 0)
    => ~(/\ err.cause \in {"mtime", "dir_mtime"}
         /\ DiskNode(err.track).frac # "zero")

\* C9: a mismatch between inventory and disk found during play (file mtime,
\* file size, sub-directory mtime) is raised as TarIntegrityError.
C9_ErrorKind ==
    err.cause \in {"mtime", "size", "dir_mtime"}
    => err.kind = "TarIntegrityError"

\* C10: after commit, in ascending arc_path order, the first start_offset
\* is 0, each end_offset is the next start_offset and the last end_offset
\* + 1024 is total_size.
C10_Contiguity ==
    tapeExists
    => /\ Len(Tracks) >= 1
       /\ \A i, j \in TrackIds :
             i < j => LexLess(Tracks[i].arc_path, Tracks[j].arc_path)
       /\ Tracks[1].start_offset = 0
       /\ \A i \in 1..(Len(Tracks) - 1) :
             Tracks[i].end_offset = Tracks[i + 1].start_offset
       /\ Tracks[Len(Tracks)].end_offset + TAR_FOOTER_SIZE = tape.total_size

\* a committed tape of three Tracks, one of them a file that needs padding
C10_Witness ==
    /\ tapeExists
    /\ Len(Tracks) >= 3
    /\ \E i \in TrackIds : has_content(Tracks[i]) /\ Tracks[i].size = 513

\* n rounded up to a multiple of 512
Padded(n) == ((n + TAR_BLOCK_SIZE - 1) \div TAR_BLOCK_SIZE) * TAR_BLOCK_SIZE

\* C11: every Track of a committed tape occupies 512 + padded(content_size)
\* bytes, content_size being size for regular files and 0 for directories
\* and symlinks.
C11_BlockAlignment ==
    tapeExists
    => \A i \in TrackIds :
          LET content_size == IF Tracks[i].is_dir \/ Tracks[i].is_symlink
                              THEN 0 ELSE Tracks[i].size
          IN  Tracks[i].end_offset - Tracks[i].start_offset
                = TAR_BLOCK_SIZE + Padded(content_size)

\* a committed tape with a 512-byte file and a 1-byte file occupying 1024
\* bytes each
C11_Witness ==
    /\ tapeExists
    /\ \E i, j \in TrackIds :
          /\ has_content(Tracks[i]) /\ Tracks[i].size = TAR_BLOCK_SIZE
          /\ Tracks[i].end_offset - Tracks[i].start_offset = 2 * TAR_BLOCK_SIZE
          /\ has_content(Tracks[j]) /\ Tracks[j].size = 1
          /\ Tracks[j].end_offset - Tracks[j].start_offset = 2 * TAR_BLOCK_SIZE

\* ------------------------------------------------------------ header claims
Built == hdr.pc = "built"
Ok == hdr.out.error = NoError
Header == hdr.out.buffer
\* bytes [a, b) of the header
Field(a, b) == SubSeq(Header, a + 1, b)
\* without trailing NULs
rstrip(s) ==
    LET used == {i \in 1..Len(s) : s[i] # 0}
    IN  IF used = {} THEN <<>>
        ELSE SubSeq(s, 1, CHOOSE i \in used : \A j \in used : j <= i)
NameField == rstrip(Field(0, 100))
PrefixField == rstrip(Field(345, 500))

\* splitting the bytes b at their k-th byte gives a prefix of at most 155
\* bytes and a name of at most 100
Fits(b, k) == b[k] = Slash /\ k - 1 <= 155 /\ Len(b) - k <= 100
AdmitsSplit(b) == Len(b) <= 100 \/ \E k \in 1..Len(b) : Fits(b, k)

\* the attributes are within the bounds of the data model
WithinBounds(e) ==
    /\ Len(e.uid) <= 32 /\ Len(e.gid) <= 32
    /\ Len(e.mtime) <= 64 /\ Len(e.size) <= 64
    /\ Len(e.mode) <= 12
    /\ Len(encode(e.uname)) <= 32 /\ Len(encode(e.gname)) <= 32
    /\ e.is_symlink => Len(encode(e.linkname)) <= 100
    /\ AdmitsSplit(encode(e.arc_path))

\* C12: build returns exactly 512 bytes for every Track whose attributes are
\* within the data-model bounds (uid, gid 32 bits; mtime, size 64 bits; mode
\* 12 bits; uname, gname at most 32 bytes; an arc_path that can be split).
C12_HeaderSize ==
    (Built /\ WithinBounds(hdr.entry)) => (Ok /\ Len(Header) = 512)

\* the number written as digits of w binary places each
ValueOf(digits, w) ==
    LET all  == [i \in 1..(Len(digits) * w) |->
                    (digits[((i - 1) \div w) + 1]
                        \div (2 ^ (w - 1 - ((i - 1) % w)))) % 2]
        ones == {i \in 1..Len(all) : all[i] = 1}
    IN  IF ones = {} THEN <<>>
        ELSE SubSeq(all, CHOOSE i \in ones : \A j \in ones : i <= j, Len(all))

\* the size a reader takes from the 12-byte size field
DecodeSize(field) ==
    IF field[1] = 128 THEN ValueOf(SubSeq(field, 2, 12), 8)
    ELSE ValueOf([k \in 1..11 |-> field[k] - 48], 3)

\* C13: a size up to 2^33 - 1 is written as 11 octal digits and a NUL, a
\* larger one as 0x80 and 11 big-endian bytes; the field decodes to the
\* size, the size never makes build fail and the header is 512 bytes.
C13_SizeRoundTrip ==
    Built
    => /\ ~Ok => hdr.out.error.at # 124
       /\ Ok => /\ Len(Header) = 512
                /\ IF Len(hdr.entry.size) <= 33
                   THEN /\ \A k \in 1..11 : Field(124, 136)[k] \in 48..55
                        /\ Field(124, 136)[12] = 0
                   ELSE Field(124, 136)[1] = 128
                /\ DecodeSize(Field(124, 136)) = hdr.entry.size

\* the header of a Track of 2^64 - 1 bytes was built in base 256
C13_Witness ==
    /\ Built /\ Ok
    /\ hdr.entry.size = Rep(1, 64)
    /\ Field(124, 136)[1] = 128
    /\ DecodeSize(Field(124, 136)) = hdr.entry.size

\* C14: an arc_path of at most 100 UTF-8 bytes is the name, the prefix being
\* empty; a longer one is split at its right-most '/' that leaves at most
\* 155 bytes of prefix and 100 of name, and prefix '/' name is the arc_path.
C14_PathSplit ==
    (Built /\ Ok)
    => LET b == encode(hdr.entry.arc_path)
       IN  IF Len(b) <= 100
           THEN NameField = b /\ PrefixField = <<>>
           ELSE \E k \in 1..Len(b) :
                   /\ Fits(b, k)
                   /\ \A j \in (k + 1)..Len(b) : ~Fits(b, j)
                   /\ PrefixField = SubSeq(b, 1, k - 1)
                   /\ NameField = SubSeq(b, k + 1, Len(b))
                   /\ PrefixField \o <<Slash>> \o NameField = b

\* a header was built for a path of more than 100 bytes that has two '/'
\* that fit
C14_Witness ==
    /\ Built /\ Ok
    /\ Len(encode(hdr.entry.arc_path)) > 100
    /\ Cardinality({k \in 1..Len(encode(hdr.entry.arc_path)) :
                      Fits(encode(hdr.entry.arc_path), k)}) >= 2

\* 101 bytes in a row without a '/'
HasLongComponent(b) ==
    \E i \in 1..(Len(b) - 100) : \A j \in i..(i + 100) : b[j] # Slash

\* C15: build fails with a compliance error for every arc_path that has a
\* component of more than 100 bytes, wherever the component is, and for
\* every arc_path of more than 100 bytes that no '/' splits.
C15_PathRejection ==
    (Built /\ (\/ HasLongComponent(encode(hdr.entry.arc_path))
               \/ ~AdmitsSplit(encode(hdr.entry.arc_path))))
    => (~Ok /\ hdr.out.error.kind = "ValueError")

\* C16: the name field of the header of a directory Track ends with '/'.
C16_DirectoryMarker ==
    (Built /\ Ok /\ hdr.entry.is_dir)
    => (NameField # <<>> /\ NameField[Len(NameField)] = Slash)

\* the field of the given width at offset a holds the whole text, NUL-padded
FieldHolds(a, width, text) ==
    Field(a, a + width) = encode(text) \o Rep(0, width - Len(encode(text)))

Committed == {r \in Recorders : rec.obj[r].state = "committed"}
Triples(tracks) ==
    [k \in 1..Len(tracks) |->
        <<tracks[k].arc_path, tracks[k].size, tracks[k].mtime>>]

\* C18: two inventories with the same (arc_path, size, mtime) triples in
\* arc_path order have the same fingerprint, whatever their mode bits,
\* owners, anonymize setting or symlink targets.
C18_FingerprintPurity ==
    \A r1, r2 \in Committed :
        Triples(rec.obj[r1].tracks) = Triples(rec.obj[r2].tracks)
        => rec.obj[r1].fingerprint = rec.obj[r2].fingerprint

\* two commits, one anonymized and one not, recorded the same triples with
\* other permission bits on some Track
C18_Witness ==
    \E r1, r2 \in Committed :
        /\ Triples(rec.obj[r1].tracks) = Triples(rec.obj[r2].tracks)
        /\ rec.obj[r1].anonymize /\ ~rec.obj[r2].anonymize
        /\ \E k \in 1..Len(rec.obj[r1].tracks) :
              rec.obj[r1].tracks[k].mode # rec.obj[r2].tracks[k].mode

\* C19: two commit runs over a directory none of whose members the user
\* changed between the runs return the same fingerprint.
C19_CommitDeterminism ==
    \A r1, r2 \in Committed :
        rec.obj[r1].at = rec.obj[r2].at
        => rec.obj[r1].fingerprint = rec.obj[r2].fingerprint

\* C20: a commit invoked while a tape exists at the target fails and leaves
\* the tape as it is.
C20_NoOverwrite ==
    [][(tapeExists /\ tapeExists')
       => (/\ tape' = tape
           /\ \A r \in Recorders :
                 rec.obj[r].state = "ready"
                 => rec'.obj[r].state # "committed")]_vars

\* the store at D/.tartape/index.db is a whole tape
CompleteTape ==
    /\ tape.tracks # <<>>
    /\ \A i \in TrackIds : Tracks[i].start_offset >= 0
                            /\ Tracks[i].end_offset > Tracks[i].start_offset
    /\ tape.fingerprint # <<>>
    /\ tape.total_size >= TAR_FOOTER_SIZE

\* C21: at every moment D/.tartape/index.db either does not exist or is a
\* complete tape (every Track with its offsets, fingerprint and total_size
\* present).
C21_AtomicPublish == tapeExists => CompleteTape

\* C21, failure half: a commit that fails during discovery, flush, layout
\* or fingerprinting leaves the final location as it was, so no tape file
\* exists there if none did.
C21_FailedCommit ==
    [][(\E r \in Recorders : /\ rec.obj[r].state = "ready"
                             /\ rec'.obj[r].state = "failed")
       => (tapeExists' = tapeExists /\ tape' = tape)]_vars

\* ---------------------------------------------------------- exclusion claims
\* the exclusion rule of the setting, for a path below the recorded directory
RuleHolds(exclude, rel) ==
    LET parts == rec.above \o <<RootName>> \o rel
    IN  IF exclude.kind = "none" THEN FALSE
        ELSE IF exclude.kind = "callable" THEN rel \in exclude.paths
        ELSE \E q \in (IF exclude.kind = "str" THEN {exclude.pattern}
                        ELSE exclude.patterns) :
                match(parts, q) \/ rel[Len(rel)] = q

InMetaDir(rel) == rel # <<>> /\ rel[1] = TAPE_METADATA_DIR

\* the path, or a directory between the root and it, is excluded
Excluded(exclude, rel) ==
    \/ InMetaDir(rel)
    \/ \E k \in 1..Len(rel) : RuleHolds(exclude, SubSeq(rel, 1, k))

\* the supported paths below the root when recorder r ran its discovery
\* (commit changes nothing below the root but D/.tartape)
SupportedBelow ==
    {p \in Paths \ {RootPath} :
        (\A k \in 0..(Len(p) - 1) : fs[SubSeq(p, 1, k)].kind = "dir")
            /\ Supported(fs[p])}

TrackPaths(r) ==
    {rec.obj[r].tracks[k].rel_path : k \in 1..Len(rec.obj[r].tracks)}

\* C22: after commit no Track lies inside D/.tartape, no Track below the
\* root has a path, or a directory above it below the root, for which the
\* exclusion rule holds, and every supported path below the root that is
\* not excluded has a Track.
C22_Exclusion ==
    \A r \in Committed :
        /\ \A p \in TrackPaths(r) :
              p # RootPath => ~Excluded(rec.obj[r].exclude, p)
        /\ \A p \in SupportedBelow :
              ~Excluded(rec.obj[r].exclude, p) => p \in TrackPaths(r)

\* ------------------------------------------------------ anonymization claims
Identity(t) ==
    [uid |-> t.uid, gid |-> t.gid, uname |-> t.uname, gname |-> t.gname]
KindOf(t) ==
    IF t.is_dir THEN "dir" ELSE IF t.is_symlink THEN "symlink" ELSE "file"

\* C23: with anonymize every Track stored by commit has uid 0, gid 0, uname
\* "root" and gname "root" whoever owns the path on disk; without it the
\* probed identity is stored.
C23_Anonymization ==
    \A r \in Committed :
        \A k \in 1..Len(rec.obj[r].tracks) :
            Identity(rec.obj[r].tracks[k])
                = IF rec.obj[r].anonymize THEN RootOwner
                  ELSE st_owner(KindOf(rec.obj[r].tracks[k]))

\* an anonymized and a plain commit both stored a regular file and a
\* symlink, whose owners are not root
C23_Witness ==
    \E r1, r2 \in Committed :
        /\ rec.obj[r1].anonymize /\ ~rec.obj[r2].anonymize
        /\ \A r \in {r1, r2} :
              /\ \E k \in 1..Len(rec.obj[r].tracks) :
                    KindOf(rec.obj[r].tracks[k]) = "file"
              /\ \E k \in 1..Len(rec.obj[r].tracks) :
                    KindOf(rec.obj[r].tracks[k]) = "symlink"
        /\ \E k \in 1..Len(rec.obj[r2].tracks) :
              rec.obj[r2].tracks[k].uid = Owner.uid

\* ---------------------------------------------------- concurrent generators
\* C24: two play generators over the same tape, advanced in any
\* interleaving, one finishing or being abandoned while the other is
\* mid-stream, each yield the events they yield when run alone: neither
\* raises for the other's sake, and a play from offset 0 ends with the bytes
\* of the play from offset 0 before it.
C24_ConcurrentPlayers ==
    /\ other.pc # "raised"
    /\ err.cause # "closed_database"
    /\ (Ended /\ Offset = 0 /\ full.known) => Bytes(events) = full.bytes

\* ------------------------------------------------------------- event claims
\* the positions of the events of the given kind that belong to Track i
EventsOfTrack(kind, i) ==
    {k \in EventsOf(kind) : events[k].track = i}

\* C25: a Track with end_offset > global_skip gets exactly one FILE_START,
\* before any FILE_DATA of it; a Track with end_offset <= global_skip gets
\* no event at all.
C25_FileStart ==
    \A i \in TrackIds :
        /\ (EventsOfTrack("FILE_DATA", i) \cup EventsOfTrack("FILE_END", i)) # {}
           => /\ Cardinality(EventsOfTrack("FILE_START", i)) = 1
              /\ \A s \in EventsOfTrack("FILE_START", i) :
                    \A k \in EventsOfTrack("FILE_DATA", i)
                              \cup EventsOfTrack("FILE_END", i) : s < k
        /\ (pc # "idle" /\ Tracks[i].end_offset <= Offset)
           => (EventsOfTrack("FILE_START", i) \cup EventsOfTrack("FILE_DATA", i)
                 \cup EventsOfTrack("FILE_END", i)) = {}

\* the Tracks of the requested window
InWindow == {i \in TrackIds : Tracks[i].end_offset > Offset}
FooterEmitted ==
    \E k \in EventsOf("FILE_DATA") :
        events[k].track = 0 /\ events[k].data.src = "nul"

C26_Events ==
    /\ EventsOf("TAPE_COMPLETED") \subseteq {Len(events)}
    /\ Completed
          => /\ \A i \in InWindow : EventsOfTrack("FILE_END", i) # {}
             /\ FooterEmitted
    /\ (Ended /\ FooterEmitted
            /\ \A i \in InWindow : EventsOfTrack("FILE_END", i) # {})
          => Completed

\* C26: TAPE_COMPLETED is emitted at most once and only as the last event,
\* and is emitted if and only if every Track of the window was emitted
\* through its FILE_END and the footer was emitted; once an error is raised
\* no further event is produced.
C26_Completion ==
    /\ []C26_Events
    /\ [][err # NoErr => events' \in {events, <<>>}]_vars

\* C27: when a Track fails its stream-time integrity check, no event of
\* that Track (FILE_START, FILE_DATA of header or content, FILE_END) has
\* been emitted.
C27_NoPartialEmission ==
    (pc = "failed" /\ err.at = "stream"
        /\ err.cause \in {"missing", "mtime", "size"})
    => (EventsOfTrack("FILE_START", err.track)
          \cup EventsOfTrack("FILE_DATA", err.track)
          \cup EventsOfTrack("FILE_END", err.track)) = {}

\* C28: the FILE_END of a Track carries an md5sum if and only if the Track
\* is a regular file whose content was streamed from its first byte
\* (global_skip <= start_offset + 512); directories, symlinks and files
\* resumed inside their content or padding carry none.
C28_Md5Presence ==
    \A k \in EventsOf("FILE_END") :
        events[k].md5sum
            <=> /\ has_content(Tracks[events[k].track])
                /\ Offset <= Tracks[events[k].track].start_offset + TAR_BLOCK_SIZE

\* one play ended a file resumed inside its content without md5sum and the
\* file after it with one
C28_Witness ==
    \E k1, k2 \in EventsOf("FILE_END") :
        /\ has_content(Tracks[events[k1].track])
        /\ Offset > Tracks[events[k1].track].start_offset + TAR_BLOCK_SIZE
        /\ Offset < Tracks[events[k1].track].start_offset + TAR_BLOCK_SIZE
                        + Tracks[events[k1].track].size
        /\ ~events[k1].md5sum
        /\ events[k2].md5sum

\* C29: every FILE_DATA event of a content region carries at least 1 and at
\* most chunk_size bytes, and no FILE_DATA event of any region (header,
\* content, padding, footer) has empty data.
C29_ChunkBound ==
    \A k \in EventsOf("FILE_DATA") :
        /\ events[k].data.len >= 1
        /\ events[k].data.src = "content" => events[k].data.len <= play.chunk_size

\* a finished play that cut one file into a full chunk and a shorter rest and
\* also emitted header, padding and footer bytes
C29_Witness ==
    /\ pc = "done"
    /\ \E k \in EventsOf("FILE_DATA") :
          /\ k + 1 \in EventsOf("FILE_DATA")
          /\ events[k].data.src = "content"
          /\ events[k].data.len = play.chunk_size
          /\ events[k + 1].data.src = "content"
          /\ events[k + 1].data.len < play.chunk_size
    /\ \E k \in EventsOf("FILE_DATA") : events[k].data.src = "header"
    /\ \E k \in EventsOf("FILE_DATA") :
          events[k].data.src = "nul" /\ events[k].track # 0
    /\ \E k \in EventsOf("FILE_DATA") :
          events[k].data.src = "nul" /\ events[k].track = 0

\* the read loop of the current Track ends without an error
ReadLoopExit == pc = "read" /\ pc' = "padding"

\* C30: while a regular file's content is streamed, a file made shorter than
\* the inventoried size (short read) or longer than it (a byte readable
\* past size) aborts the playback before the Track's FILE_END, for every
\* start_offset, resumes inside the content included: the read loop ends
\* normally only when every inventoried byte was read and the file read has
\* no byte past size.
C30_ReadTimeDrift ==
    [][ReadLoopExit
         => /\ play.fh.pos = Tracks[play.entry].size
            /\ HandleNode.size <= Tracks[play.entry].size]_vars

\* C30 restricted to plays that stream the content from its first byte
C30_FromFirstByte ==
    [][ReadLoopExit /\ play.local_skip = 0
         => /\ play.fh.pos = Tracks[play.entry].size
            /\ HandleNode.size <= Tracks[play.entry].size]_vars

\* the stream position when event k is yielded: the start offset plus the
\* FILE_DATA bytes yielded before it
PositionAt(k) == Offset + TotalLen(Runs(SubSeq(events, 1, k - 1)))

\* C31: in every play(start_offset = o), the stream position (o plus the
\* FILE_DATA bytes emitted so far) equals the Track's start_offset when its
\* FILE_START is emitted and its end_offset when its FILE_END is emitted,
\* also when files change on disk during the play.
C31_OffsetAccounting ==
    /\ \A k \in EventsOf("FILE_START") :
          PositionAt(k) = Tracks[events[k].track].start_offset
    /\ \A k \in EventsOf("FILE_END") :
          PositionAt(k) = Tracks[events[k].track].end_offset

\* C31 restricted to the start offsets of the parameter table (0 <= o)
C31_InRange == Offset >= 0 => C31_OffsetAccounting

Mismatch(i, disk) ==
    LET track == Tracks[i]
        node  == disk[track.rel_path]
    IN  \/ node = NoNode
        \/ /\ node # NoNode
           /\ \/ /\ ~track.is_dir /\ ~track.is_symlink
                 /\ \/ node.sec # track.mtime
                    \/ node.size # track.size
                    \/ node.mode # track.mode
              \/ track.is_symlink /\ node.link # track.linkname
              \/ /\ track.is_dir /\ track.rel_path # RootPath
                 /\ node.sec # track.mtime

\* C33: with fast_verify = false, play checks every Track against the disk
\* before emitting any event: if any Track mismatches, play raises and emits
\* zero events.
C33_FullPreflight ==
    [][(/\ pc = "idle" /\ pc' # "idle"
        /\ ~play'.fast_verify
        /\ \E i \in TrackIds : Mismatch(i, fs))
       => (pc' = "failed" /\ err' # NoErr /\ events' = <<>>)]_vars

\* a full pre-flight stopped a play for the sake of the tape's last Track,
\* which is not the only one
C33_Witness ==
    /\ pc = "failed"
    /\ ~play.fast_verify
    /\ err.at = "preflight"
    /\ Len(Tracks) >= 3
    /\ err.track = Len(Tracks)
    /\ \A i \in TrackIds : Mismatch(i, fs) <=> i = Len(Tracks)
    /\ events = <<>>

\* the Tracks of tape t whose window [start_offset, end_offset) holds o
Covering(t, o) ==
    {i \in 1..Len(t.tracks) : /\ t.tracks[i].start_offset <= o
                               /\ o < t.tracks[i].end_offset}

InsideTracks(o) == 0 < o /\ o < tape.total_size - TAR_FOOTER_SIZE

C35_Renderable ==
    hdr.pc = "rendered" => hdr.out.error = NoError

\* Track j lies beneath the directory of Track i
Beneath(i, j) ==
    /\ Tracks[i].is_dir
    /\ Len(Tracks[j].rel_path) > Len(Tracks[i].rel_path)
    /\ SubSeq(Tracks[j].rel_path, 1, Len(Tracks[i].rel_path))
          = Tracks[i].rel_path

\* C36: in ascending arc_path order the root directory is the first Track,
\* at [0, 512) and named by the directory's basename, and every directory
\* Track precedes every Track beneath it.
C36_ParentsFirst ==
    tapeExists
        => /\ Tracks[1].rel_path = RootPath
           /\ Tracks[1].is_dir
           /\ Tracks[1].arc_path = RootName
           /\ Tracks[1].start_offset = 0
           /\ Tracks[1].end_offset = TAR_BLOCK_SIZE
           /\ \A i, j \in TrackIds : Beneath(i, j) => i < j

\* a tape of a directory a, its child a/b and a sibling a- that sorts
\* between the two
C36_Witness ==
    /\ tapeExists
    /\ Len(Tracks) = 4
    /\ Tracks[2].rel_path = PathA
    /\ Tracks[3].rel_path = PathADash
    /\ Tracks[4].rel_path = PathAB
    /\ Beneath(2, 4)

\* no path was added and no directory listed twice
NoRevisit ==
    /\ \A i, j \in 1..Len(scan.buffer) :
          scan.buffer[i].rel_path = scan.buffer[j].rel_path => i = j
    /\ \A i, j \in 1..Len(scan.listed) :
          scan.listed[i] = scan.listed[j] => i = j

\* everything above an added path is a directory of the tree itself
NoDescent ==
    \A k \in 1..Len(scan.buffer) :
        LET rel == scan.buffer[k].rel_path
        IN  /\ rel \in Paths
            /\ \A m \in 0..(Len(rel) - 1) : fs[SubSeq(rel, 1, m)].kind = "dir"

\* every symlink inside the tree has its one Track, of size 0
LinkTracks ==
    \A p \in Paths :
        (fs[p].kind = "symlink"
            /\ \A m \in 0..(Len(p) - 1) : fs[SubSeq(p, 1, m)].kind = "dir")
        => \E k \in 1..Len(scan.buffer) :
              /\ scan.buffer[k].rel_path = p
              /\ scan.buffer[k].is_symlink
              /\ ~scan.buffer[k].is_dir
              /\ scan.buffer[k].size = 0

\* C37: discovery terminates on every finite tree, also with symlinks to
\* ancestor directories; a symlink to a directory becomes one symlink Track
\* of size 0 and is never descended into, and each path under the root is
\* visited at most once.
C37_Discovery ==
    /\ <>(scan.pc = "done")
    /\ [](scan.pc \notin {"none", "new"} => NoRevisit /\ NoDescent)
    /\ [](scan.pc = "done" => LinkTracks)

\* a finished discovery of a tree whose links lead to the root from both
\* levels
C37_Witness ==
    /\ scan.pc = "done"
    /\ fs[PathADash].kind = "symlink" /\ fs[PathADash].link = Dot
    /\ fs[PathAB].kind = "symlink" /\ fs[PathAB].link = DotDot
    /\ Len(scan.buffer) = 4
    /\ scan.listed = <<RootPath, PathA>>

\* C38: the stream of the package facade (tartape/core.py) emits for every
\* entry a header FILE_DATA of exactly 512 bytes or raises, whatever uid,
\* gid, mode, mtime and size are, so that the offsets of FILE_START and
\* FILE_END stay multiples of 512.
C38_FacadeHeader ==
    hdr.pc \in {"header", "end", "next"}
        => \A k \in 1..Len(hdr.events) :
              /\ hdr.events[k].type = "FILE_DATA"
                    => Len(hdr.events[k].data) = TAR_BLOCK_SIZE
              /\ hdr.events[k].type = "FILE_START"
                    => hdr.events[k].start_offset % TAR_BLOCK_SIZE = 0
              /\ hdr.events[k].type = "FILE_END"
                    => hdr.events[k].end_offset % TAR_BLOCK_SIZE = 0

====
